---- MODULE Spec2Model ----
(***************************************************************************)
(* Model of the FAST-Pathology model-execution orchestrator:               *)
(*   ProcessManager::selectOptimalInferenceEngine  (engine resolver)       *)
(*   ProcessManager::pixelClassifier               (pipeline assembler)    *)
(*   Project::saveResults / Project::loadResults   (result store)          *)
(***************************************************************************)
EXTENDS Integers, Sequences, FiniteSets, TLC

VARIABLES
    modelDir,           \* extensions of the files of <models>/<name>/ whose name holds <name>, in listing order
    inference_engines,  \* ProcessManager::_inference_engines, in discovery order
    optimal_set,        \* the pair last returned by selectOptimalInferenceEngine
    pc,                 \* position of the pixelClassifier run
    modelMetadata,      \* the model's metadata map (a key that is absent is not in its DOMAIN)
    image,              \* the visible whole-slide image: magnification, downsample, levels
    network,            \* the NeuralNetwork / SegmentationNetwork object of the run
    currNetwork,        \* the BoundingBoxNetwork of the object_detection branch
    chosenIE,           \* the model file extension the run will load
    patch_lvl_model,    \* patch level of the high-resolution path
    currLvl,            \* pyramid level of the low-resolution path
    log,                \* the calls the run has made so far, in order
    renderers,          \* the image's renderer registrations <<name, kind>>, in insertion order
    renderersAtStart,   \* renderers when the current run was entered
    outcome,            \* how the current run ended
    runs,               \* number of runs started
    anchorFile,         \* the lines of <models>/<name>/<name>.anchors: entries split at " ", each split at ","
    disk,               \* <root>/results/<wsi_uid>/: result directory <<pipeline, output>> -> its files
    savePc,             \* position of the saveResults call
    saveArgs,           \* the pipeline passed to saveResults: its name and its renderers
    saveTodo,           \* entries of pipelineData the loop of saveResults has not reached yet
    saves,              \* number of saveResults calls started
    loadPc,             \* position of the loadResults call
    loadDirs,           \* result directories the loops of loadResults have not reached yet
    loadCur,            \* the result directory whose files loadResults is reading
    loadFiles,          \* files of loadCur not read yet
    view,               \* renderers added to the view by loadResults, in order
    edits,              \* number of changes made to the result folder from outside the program
    root_folder,        \* Project::_root_folder: the text before a trailing "/" and whether it ends in "/"
    temporary_dir_flag, \* Project::_temporary_dir_flag
    images,             \* Project::_images: uid -> file path of the image (its "," separated chunks)
    fs,                 \* files of the file system: path -> lines, each line split at ","
    folders,            \* directories of the file system
    lastCall,           \* the last call made on the project: operation, argument, returned value
    calls,              \* number of calls made on the project
    pinstance,          \* ProcessManager::_pinstance is set
    mutex,              \* holder of ProcessManager::_mutex, or NoThread
    models,             \* ProcessManager::_models: name -> "model", or "null" for a default-inserted entry
    writing,            \* threads that are inside a modifying access of _models
    raced,              \* a modifying access of _models has overlapped another access of it
    tpc,                \* position of each thread
    targ,               \* the model name of each thread's current call
    tcalls              \* number of calls each thread has started

resolverVars == <<modelDir, inference_engines, optimal_set>>

runVars == <<pc, modelMetadata, image, network, currNetwork, chosenIE, patch_lvl_model,
             currLvl, log, renderers, renderersAtStart, outcome, runs, anchorFile>>

storeVars == <<disk, savePc, saveArgs, saveTodo, saves, loadPc, loadDirs, loadCur,
               loadFiles, view, edits>>

projectVars == <<root_folder, temporary_dir_flag, images, fs, folders, lastCall, calls>>

registryVars == <<pinstance, mutex, models, writing, raced, tpc, targ, tcalls>>

vars == <<modelDir, inference_engines, optimal_set, pc, modelMetadata, image, network,
          currNetwork, chosenIE, patch_lvl_model, currLvl, log, renderers,
          renderersAtStart, outcome, runs, anchorFile, disk, savePc, saveArgs, saveTodo, saves,
          loadPc, loadDirs, loadCur, loadFiles, view, edits,
          root_folder, temporary_dir_flag, images, fs, folders, lastCall, calls,
          pinstance, mutex, models, writing, raced, tpc, targ, tcalls>>

(***************************************************************************)
(* Bounds and alphabets                                                    *)
(***************************************************************************)
MaxFiles == 4
MaxEngines == 3

Formats == {"onnx", "uff", "xml", "pb"}
Backends == {"TensorRT", "OpenVINO", "TensorFlow"}

BoundedSeq(S, n) == UNION {[1..k -> S] : k \in 0..n}
Range(s) == {s[i] : i \in DOMAIN s}

\* the pair "" , "" returned when nothing matches
EmptyPair == <<"", "">>
\* value of optimal_set before the first call
Unset == <<"?", "?">>

(***************************************************************************)
(* Engine resolver                                                         *)
(***************************************************************************)
\* std::find(list.begin(), list.end(), x) != list.end()
Find(list, x) == \E i \in DOMAIN list : list[i] = x

\* acceptedModels: "." + the extension of every file of the model directory
acceptedModels(dir) == [i \in DOMAIN dir |-> "." \o dir[i]]

SelectSwappedBranches(dir, engines) ==
    LET accepted == acceptedModels(dir) IN
    IF Find(accepted, ".onnx") /\ Find(engines, "TensorRT") THEN <<"TensorRT", "onnx">>
    ELSE IF Find(accepted, ".uff") /\ Find(engines, "TensorRT") THEN <<"TensorRT", "uff">>
    ELSE IF Find(accepted, ".xml") /\ Find(engines, "OpenVINO") THEN <<"OpenVINO", "xml">>
    ELSE IF Find(accepted, ".onnx") /\ Find(engines, "OpenVINO") THEN <<"OpenVINO", "onnx">>
    ELSE IF Find(accepted, ".pb") /\ Find(engines, "TensorFlow") THEN <<"TensorFlow", "pb">>
    ELSE EmptyPair

SelectFirstDiscovered(dir, engines) ==
    LET accepted == acceptedModels(dir) IN
    IF accepted # <<>> /\ engines # <<>> /\ accepted[1] = ".onnx" /\ Find(engines, "TensorRT")
        THEN <<"TensorRT", "onnx">>
    ELSE IF accepted # <<>> /\ accepted[1] = ".xml" /\ Find(engines, "OpenVINO")
        THEN <<"OpenVINO", "xml">>
    ELSE IF Find(accepted, ".onnx") /\ Find(engines, "TensorRT") THEN <<"TensorRT", "onnx">>
    ELSE IF Find(accepted, ".uff") /\ Find(engines, "TensorRT") THEN <<"TensorRT", "uff">>
    ELSE IF Find(accepted, ".onnx") /\ Find(engines, "OpenVINO") THEN <<"OpenVINO", "onnx">>
    ELSE IF Find(accepted, ".xml") /\ Find(engines, "OpenVINO") THEN <<"OpenVINO", "xml">>
    ELSE IF Find(accepted, ".pb") /\ Find(engines, "TensorFlow") THEN <<"TensorFlow", "pb">>
    ELSE EmptyPair

SelectGuessDefault(dir, engines) ==
    LET accepted == acceptedModels(dir) IN
    IF Find(accepted, ".onnx") /\ Find(engines, "TensorRT") THEN <<"TensorRT", "onnx">>
    ELSE IF Find(accepted, ".uff") /\ Find(engines, "TensorRT") THEN <<"TensorRT", "uff">>
    ELSE IF Find(accepted, ".onnx") /\ Find(engines, "OpenVINO") THEN <<"OpenVINO", "onnx">>
    ELSE IF Find(accepted, ".xml") /\ Find(engines, "OpenVINO") THEN <<"OpenVINO", "xml">>
    ELSE <<"TensorFlow", "pb">>

\* ProcessManager::selectOptimalInferenceEngine: the if / else-if chain, in source order
selectOptimalInferenceEngine(dir, engines) ==
    LET accepted == acceptedModels(dir) IN
    IF Find(accepted, ".onnx") /\ Find(engines, "TensorRT") THEN <<"TensorRT", "onnx">>
    ELSE IF Find(accepted, ".uff") /\ Find(engines, "TensorRT") THEN <<"TensorRT", "uff">>
    ELSE IF Find(accepted, ".onnx") /\ Find(engines, "OpenVINO") THEN <<"OpenVINO", "onnx">>
    ELSE IF Find(accepted, ".xml") /\ Find(engines, "OpenVINO") THEN <<"OpenVINO", "xml">>
    ELSE IF Find(accepted, ".pb") /\ Find(engines, "TensorFlow") THEN <<"TensorFlow", "pb">>
    ELSE EmptyPair

(***************************************************************************)
(* Values of the pipeline assembler                                        *)
(***************************************************************************)
\* std::map::operator[] on the metadata: an absent key reads as the empty string
Get(md, key) == IF key \in DOMAIN md THEN md[key] ELSE ""

\* std::map::count
Count(md, key) == IF key \in DOMAIN md THEN 1 ELSE 0

\* the strings std::stoi converts; on any other string of the model it throws
NumVal == [s \in {"0", "1", "2", "3", "4", "8", "10", "20", "40", "255"} |->
             CASE s = "0" -> 0 [] s = "1" -> 1 [] s = "2" -> 2 [] s = "3" -> 3
               [] s = "4" -> 4 [] s = "8" -> 8 [] s = "10" -> 10 [] s = "20" -> 20
               [] s = "40" -> 40 [] s = "255" -> 255]
StoiThrows(s) == s \notin DOMAIN NumVal
Stoi(s) == NumVal[s]

\* a network object before NeuralNetwork::New / BoundingBoxNetwork::New
NoNetwork == [kind |-> "none", engine |-> "", device |-> "", loaded |-> ""]
\* a network object right after New(): no engine chosen by the run, nothing loaded
NewNetwork(kind) == [kind |-> kind, engine |-> "default", device |-> "default", loaded |-> ""]

\* one call made by the run: the operation, the object it is made on, its arguments
Event(op, net, arg) == [op |-> op, net |-> net, arg |-> arg]

\* WholeSlideImage::has_renderer: a renderer is registered under that name
HasRenderer(rs, name) == \E i \in DOMAIN rs : rs[i][1] = name

\* WholeSlideImage::insert_renderer: registers the renderer under that name
InsertRenderer(rs, name, kind) == Append(rs, <<name, kind>>)

\* an anchor file of one line with six "width,height" entries
DefaultAnchors ==
    << << <<"1", "2">>, <<"2", "3">>, <<"3", "4">>, <<"4", "8">>, <<"8", "10">>, <<"10", "20">> >> >>

\* the image and the state of a run when no run was started yet
IdleImage == [magn |-> 40, downsample |-> "4", levelCount |-> "1",
              levels |-> << [w |-> 64, h |-> 64] >>]

RunIdle ==
    /\ pc = "idle"
    /\ modelMetadata = [model_name |-> "m"]
    /\ image = IdleImage
    /\ network = NoNetwork
    /\ currNetwork = NoNetwork
    /\ chosenIE = ""
    /\ patch_lvl_model = 0
    /\ currLvl = 0
    /\ log = <<>>
    /\ renderers = <<>>
    /\ renderersAtStart = <<>>
    /\ outcome = "none"
    /\ runs = 0
    /\ anchorFile = DefaultAnchors

\* no result directory (the function with the empty domain)
NoDisk == [d \in {} |-> 0]
NoPipeline == [name |-> "", renderers |-> <<>>]
NoDir == <<"", "">>

\* the result store when nothing was saved and nothing is being saved or loaded
StoreIdle ==
    /\ disk = NoDisk
    /\ savePc = "idle"
    /\ saveArgs = NoPipeline
    /\ saveTodo = <<>>
    /\ saves = 0
    /\ loadPc = "idle"
    /\ loadDirs = {}
    /\ loadCur = NoDir
    /\ loadFiles = {}
    /\ view = <<>>
    /\ edits = 0

\* the folder text `dir` followed by "/" when `slash`
Folder(dir, slash) == [dir |-> dir, slash |-> slash]

\* the text of a folder
FolderText(f) == IF f.slash THEN f.dir \o "/" ELSE f.dir

\* the file a path names: `f + "/" + rest` and, for a folder that ends in "/",
\* `f + rest` are the same file (a doubled "/" separates like a single one);
\* for a folder that does not end in "/", `f + rest` glues rest to its last component
PathSlash(f, rest) == f.dir \o "/" \o rest
PathGlued(f, rest) == IF f.slash THEN f.dir \o "/" \o rest ELSE f.dir \o rest

\* Project::Project(): QDir::tempPath() + "/project_" + createRandomNumbers_(8)
TemporaryFolder == Folder("/tmp/project_12345678", FALSE)

\* Project::createFolderDirectoryArchitecture
createFolderDirectoryArchitecture(f) ==
    {PathSlash(f, "pipelines"), PathSlash(f, "results"), PathSlash(f, "thumbnails")}

NoImages == [u \in {} |-> <<>>]
NoFiles == [p \in {} |-> <<>>]
NoCall == [op |-> "none", arg |-> <<>>, ret |-> ""]

\* a project as its constructor leaves it, on a file system with nothing else
ProjectIdle ==
    /\ root_folder = TemporaryFolder
    /\ temporary_dir_flag = TRUE
    /\ images = NoImages
    /\ fs = NoFiles
    /\ folders = {FolderText(TemporaryFolder)} \cup createFolderDirectoryArchitecture(TemporaryFolder)
    /\ lastCall = NoCall
    /\ calls = 0

Threads == {"t1", "t2"}
NoThread == "none"
NoModels == [n \in {} |-> ""]

\* the process before the first GetInstance call
RegistryIdle ==
    /\ pinstance = FALSE
    /\ mutex = NoThread
    /\ models = NoModels
    /\ writing = {}
    /\ raced = FALSE
    /\ tpc = [t \in Threads |-> "idle"]
    /\ targ = [t \in Threads |-> ""]
    /\ tcalls = [t \in Threads |-> 0]

(***************************************************************************)
(* Specification of the resolver alone: the host presents a directory      *)
(* listing and a backend list in some order, possibly with repeats, and    *)
(* the resolver is called on them.                                         *)
(***************************************************************************)
InitResolve ==
    /\ modelDir \in BoundedSeq(Formats, MaxFiles)
    /\ inference_engines \in BoundedSeq(Backends, MaxEngines)
    /\ optimal_set = Unset
    /\ RunIdle
    /\ StoreIdle
    /\ ProjectIdle
    /\ RegistryIdle

\* a call of selectOptimalInferenceEngine on the current listing
Resolve ==
    /\ optimal_set = Unset
    /\ optimal_set' = selectOptimalInferenceEngine(modelDir, inference_engines)
    /\ UNCHANGED <<modelDir, inference_engines>>

SwapAt(s, i) == [k \in DOMAIN s |-> IF k = i THEN s[i + 1] ELSE IF k = i + 1 THEN s[i] ELSE s[k]]
DropAt(s, i) == [k \in 1..(Len(s) - 1) |-> IF k < i THEN s[k] ELSE s[k + 1]]

\* the same files listed in another order, then a new call
ResolveFilesReordered ==
    /\ optimal_set # Unset
    /\ \E i \in 1..(Len(modelDir) - 1) : modelDir' = SwapAt(modelDir, i)
    /\ UNCHANGED inference_engines
    /\ optimal_set' = selectOptimalInferenceEngine(modelDir', inference_engines')

\* a format listed once more (two files with the same extension), then a new call
ResolveFilesDuplicated ==
    /\ optimal_set # Unset
    /\ Len(modelDir) < MaxFiles
    /\ \E i \in DOMAIN modelDir : modelDir' = Append(modelDir, modelDir[i])
    /\ UNCHANGED inference_engines
    /\ optimal_set' = selectOptimalInferenceEngine(modelDir', inference_engines')

\* a repeated format listed once less, then a new call
ResolveFilesDeduplicated ==
    /\ optimal_set # Unset
    /\ \E i \in DOMAIN modelDir :
          /\ \E j \in DOMAIN modelDir : j # i /\ modelDir[j] = modelDir[i]
          /\ modelDir' = DropAt(modelDir, i)
    /\ UNCHANGED inference_engines
    /\ optimal_set' = selectOptimalInferenceEngine(modelDir', inference_engines')

\* identifySystem found the same libraries in another order, then a new call
ResolveEnginesReordered ==
    /\ optimal_set # Unset
    /\ \E i \in 1..(Len(inference_engines) - 1) : inference_engines' = SwapAt(inference_engines, i)
    /\ UNCHANGED modelDir
    /\ optimal_set' = selectOptimalInferenceEngine(modelDir', inference_engines')

\* a backend found twice (two libraries with the same name part), then a new call
ResolveEnginesDuplicated ==
    /\ optimal_set # Unset
    /\ Len(inference_engines) < MaxEngines
    /\ \E i \in DOMAIN inference_engines :
          inference_engines' = Append(inference_engines, inference_engines[i])
    /\ UNCHANGED modelDir
    /\ optimal_set' = selectOptimalInferenceEngine(modelDir', inference_engines')

\* a repeated backend found once less, then a new call
ResolveEnginesDeduplicated ==
    /\ optimal_set # Unset
    /\ \E i \in DOMAIN inference_engines :
          /\ \E j \in DOMAIN inference_engines : j # i /\ inference_engines[j] = inference_engines[i]
          /\ inference_engines' = DropAt(inference_engines, i)
    /\ UNCHANGED modelDir
    /\ optimal_set' = selectOptimalInferenceEngine(modelDir', inference_engines')

NextResolve ==
    \/ Resolve /\ UNCHANGED runVars /\ UNCHANGED storeVars /\ UNCHANGED projectVars /\ UNCHANGED registryVars
    \/ ResolveFilesReordered /\ UNCHANGED runVars /\ UNCHANGED storeVars /\ UNCHANGED projectVars /\ UNCHANGED registryVars
    \/ ResolveFilesDuplicated /\ UNCHANGED runVars /\ UNCHANGED storeVars /\ UNCHANGED projectVars /\ UNCHANGED registryVars
    \/ ResolveFilesDeduplicated /\ UNCHANGED runVars /\ UNCHANGED storeVars /\ UNCHANGED projectVars /\ UNCHANGED registryVars
    \/ ResolveEnginesReordered /\ UNCHANGED runVars /\ UNCHANGED storeVars /\ UNCHANGED projectVars /\ UNCHANGED registryVars
    \/ ResolveEnginesDuplicated /\ UNCHANGED runVars /\ UNCHANGED storeVars /\ UNCHANGED projectVars /\ UNCHANGED registryVars
    \/ ResolveEnginesDeduplicated /\ UNCHANGED runVars /\ UNCHANGED storeVars /\ UNCHANGED projectVars /\ UNCHANGED registryVars

SpecResolve == InitResolve /\ [][NextResolve]_vars

(***************************************************************************)
(* Claims about the resolver                                               *)
(***************************************************************************)
\* the fixed priority list of the specification, highest first: <<backend, format>>
PriorityOrder ==
    << <<"TensorRT", "onnx">>, <<"TensorRT", "uff">>, <<"OpenVINO", "onnx">>,
       <<"OpenVINO", "xml">>, <<"TensorFlow", "pb">> >>

Available(pair, formatSet, backendSet) == pair[2] \in formatSet /\ pair[1] \in backendSet

\* the first available pair of PriorityOrder, or the empty pair
FirstAvailable(formatSet, backendSet) ==
    IF \E k \in DOMAIN PriorityOrder : Available(PriorityOrder[k], formatSet, backendSet)
    THEN PriorityOrder[CHOOSE k \in DOMAIN PriorityOrder :
            /\ Available(PriorityOrder[k], formatSet, backendSet)
            /\ \A j \in 1..(k - 1) : ~Available(PriorityOrder[j], formatSet, backendSet)]
    ELSE EmptyPair

\* C1: for every collection of formats and of installed backends, the pair returned
\* by selectOptimalInferenceEngine is the first pair of the order (TensorRT, onnx),
\* (TensorRT, uff), (OpenVINO, onnx), (OpenVINO, xml), (TensorFlow, pb) whose format
\* is available and whose backend is installed; formats {pb} with backends
\* {TensorFlow, OpenVINO} give (TensorFlow, pb).
C1_FirstPriorityPair ==
    optimal_set # Unset =>
        /\ optimal_set = FirstAvailable(Range(modelDir), Range(inference_engines))
        /\ (Range(modelDir) = {"pb"} /\ Range(inference_engines) = {"TensorFlow", "OpenVINO"}
               => optimal_set = <<"TensorFlow", "pb">>)

\* C1 witness: the resolver was called with uff and onnx files and with OpenVINO and
\* TensorRT both installed, and returned a non-empty pair
C1_Witness ==
    /\ optimal_set # Unset
    /\ optimal_set # EmptyPair
    /\ {"uff", "onnx"} \subseteq Range(modelDir)
    /\ {"OpenVINO", "TensorRT"} \subseteq Range(inference_engines)

SameCollections ==
    /\ Range(modelDir') = Range(modelDir)
    /\ Range(inference_engines') = Range(inference_engines)

\* C2: the pair returned does not depend on discovery order or on repeats: a call on
\* a reordered or duplicated listing of the same formats and the same backends
\* returns the same pair as the call before it; and formats {onnx, xml} with the
\* backend {OpenVINO} always give (OpenVINO, onnx).
C2_OrderIndependent ==
    /\ [][(optimal_set # Unset /\ SameCollections) => optimal_set' = optimal_set]_vars
    /\ []((optimal_set # Unset /\ Range(modelDir) = {"onnx", "xml"}
              /\ Range(inference_engines) = {"OpenVINO"})
            => optimal_set = <<"OpenVINO", "onnx">>)

\* C2 witness: xml was listed before onnx, OpenVINO alone is installed, and the
\* resolver returned a pair
C2_Witness ==
    /\ optimal_set # Unset
    /\ Len(modelDir) >= 2
    /\ modelDir[1] = "xml"
    /\ Range(modelDir) = {"onnx", "xml"}
    /\ Range(inference_engines) = {"OpenVINO"}

(***************************************************************************)
(* Pipeline assembler: ProcessManager::pixelClassifier                     *)
(***************************************************************************)
MaxRuns == 2
MaxExp == 6

\* the strings std::stof converts; on any other string of the model it throws
StofThrows(s) == s \notin (DOMAIN NumVal \cup {"0.5", "0.25"})

\* splitCustom(scale_factor, "/") for the scale factors of the model
SplitSlash(s) == IF s = "1/255" THEN <<"1", "255">> ELSE IF s = "x/255" THEN <<"x", "255">> ELSE <<s>>

\* an exception inside the try block: control goes to the handler of line 807
Throw == pc' = "catch"

RECURSIVE Pow(_, _)
Pow(b, k) == IF k = 0 THEN 1 ELSE b * Pow(b, k - 1)

\* the largest k with d * b^k <= n, for n >= d >= 1 and b >= 2
FloorLog(b, n, d) == CHOOSE k \in 0..MaxExp : d * Pow(b, k) <= n /\ d * Pow(b, k + 1) > n

\* (int)(log(n / d) / log(b)): the quotient of the logarithms cut towards zero
TruncLogRatio(n, d, b) == IF n >= d THEN FloorLog(b, n, d) ELSE 0 - FloorLog(b, d, n)

\* lines 289-293 throw when magnification_level or the downsample is not a number
PatchLevelThrows(md, img) ==
    /\ Get(md, "magnification_level") # ""
    /\ StoiThrows(Get(md, "magnification_level")) \/ StofThrows(img.downsample)

\* lines 288-296: the patch level of the high-resolution path, 0 when unspecified
PatchLevel(md, img) ==
    IF Get(md, "magnification_level") = "" THEN 0
    ELSE TruncLogRatio(img.magn, Stoi(Get(md, "magnification_level")), Stoi(img.downsample))

AlreadyRanNever(rs, md) == FALSE

\* line 285: the analysis has been run on the current image before
AlreadyRan(rs, md) == HasRenderer(rs, Get(md, "model_name"))

\* runProcess calls pixelClassifier(process_name)
StartRun ==
    /\ pc \in {"idle", "done"}
    /\ runs < MaxRuns
    /\ pc' = "enter"
    /\ runs' = runs + 1
    /\ log' = <<>>
    /\ renderersAtStart' = renderers
    /\ outcome' = "none"
    /\ network' = NoNetwork
    /\ currNetwork' = NoNetwork
    /\ chosenIE' = ""
    /\ patch_lvl_model' = 0
    /\ currLvl' = 0
    /\ optimal_set' = Unset
    /\ UNCHANGED <<modelDir, inference_engines, modelMetadata, image, renderers>>

\* lines 273-298: metadata, the has_renderer guard, the patch level
Enter ==
    /\ pc = "enter"
    /\ IF AlreadyRan(renderers, modelMetadata)
         THEN pc' = "done" /\ outcome' = "skipped" /\ UNCHANGED patch_lvl_model
       ELSE IF PatchLevelThrows(modelMetadata, image)
         THEN Throw /\ UNCHANGED <<outcome, patch_lvl_model>>
       ELSE /\ pc' = "resolution"
            /\ patch_lvl_model' = PatchLevel(modelMetadata, image)
            /\ UNCHANGED outcome
    /\ UNCHANGED <<resolverVars, modelMetadata, image, network, currNetwork, chosenIE,
                   currLvl, log, renderers, renderersAtStart, runs>>

\* lines 316-319: level i (0-based) is too small for twice the input size
LevelViolates(img, i, inW, inH) ==
    img.levels[i + 1].w <= inW * 2 \/ img.levels[i + 1].h <= inH * 2

\* the levels the loop of line 315 reads before it stops
Scanned(img, n, inW, inH) ==
    {i \in 0..(n - 1) : \A j \in 0..(i - 1) : j + 1 <= Len(img.levels) /\ ~LevelViolates(img, j, inW, inH)}

\* lines 311-319 throw: a field is no number, or a scanned level has no width / height entry
LowResThrows(md, img) ==
    \/ StoiThrows(img.levelCount)
    \/ StoiThrows(Get(md, "input_img_size_x"))
    \/ StoiThrows(Get(md, "input_img_size_y"))
    \/ \E i \in Scanned(img, Stoi(img.levelCount), Stoi(Get(md, "input_img_size_x")),
                        Stoi(Get(md, "input_img_size_y"))) : i + 1 > Len(img.levels)

\* lines 315-324: currLvl after the loop; -2 stands for "never assigned"
ScanLevel(img, n, inW, inH) ==
    LET hits == {i \in Scanned(img, n, inW, inH) : LevelViolates(img, i, inW, inH)} IN
    IF hits = {} THEN 0 - 2 ELSE (CHOOSE i \in hits : \A j \in hits : i <= j) - 1

LowResLevelAtHit(img, n, inW, inH) ==
    LET hits == {i \in Scanned(img, n, inW, inH) : LevelViolates(img, i, inW, inH)} IN
    IF hits = {} THEN n - 1 ELSE CHOOSE i \in hits : \A j \in hits : i <= j

\* lines 311-327: line 327 assigns levelCount - 1 whatever the loop found
LowResLevel(img, n, inW, inH) ==
    LET afterLoop == ScanLevel(img, n, inW, inH) IN n - 1

\* lines 300-343: the resolution strategy
ResolutionStrategy ==
    /\ pc = "resolution"
    /\ IF Get(modelMetadata, "resolution") = "low"
         THEN IF LowResThrows(modelMetadata, image)
                THEN Throw /\ UNCHANGED <<currLvl, log, outcome>>
              ELSE LET lvl == LowResLevel(image, Stoi(image.levelCount),
                                          Stoi(Get(modelMetadata, "input_img_size_x")),
                                          Stoi(Get(modelMetadata, "input_img_size_y"))) IN
                   /\ currLvl' = lvl
                   /\ IF lvl < 0
                        THEN pc' = "done" /\ outcome' = "invalid_level" /\ UNCHANGED log
                      ELSE /\ pc' = "select"
                           /\ log' = log \o << Event("getLevelAsImage", "access", <<lvl>>),
                                               Event("setInputData", "resizer", <<lvl>>) >>
                           /\ UNCHANGED outcome
       ELSE pc' = "select" /\ UNCHANGED <<currLvl, log, outcome>>
    /\ UNCHANGED <<resolverVars, modelMetadata, image, network, currNetwork, chosenIE,
                   patch_lvl_model, renderers, renderersAtStart, runs>>

\* lines 364-371: the class of the network object
NetworkKind(md) ==
    IF Get(md, "problem") = "segmentation" /\ Get(md, "resolution") = "high"
        THEN "SegmentationNetwork"
    ELSE IF Get(md, "problem") = "segmentation" /\ Get(md, "resolution") = "low"
        THEN "SegmentationNetwork"
    ELSE "NeuralNetwork"

SelectionCallsEngineFirst(os) ==
    << Event("setInferenceEngine", "network", <<"OpenVINO">>),
       Event("selectOptimalInferenceEngine", "ProcessManager", os) >>

\* lines 375-382: the calls of the engine-selection step, in order
SelectionCalls(os) ==
    << Event("selectOptimalInferenceEngine", "ProcessManager", os) >>
    \o (IF os[2] = "" THEN <<>> ELSE << Event("setInferenceEngine", "network", <<os[1]>>) >>)

\* lines 345-385: the network object, the engine selection, checkFlag
SelectEngine ==
    /\ pc = "select"
    /\ LET os == selectOptimalInferenceEngine(modelDir, inference_engines) IN
       /\ optimal_set' = os
       /\ log' = log \o SelectionCalls(os)
       /\ IF os[2] = ""
            THEN /\ network' = NewNetwork(NetworkKind(modelMetadata))
                 /\ pc' = "finish"
                 /\ outcome' = "no_engine"
                 /\ UNCHANGED chosenIE
          ELSE /\ network' = [NewNetwork(NetworkKind(modelMetadata)) EXCEPT !.engine = os[1]]
               /\ chosenIE' = os[2]
               /\ pc' = "cpu"
               /\ UNCHANGED outcome
    /\ UNCHANGED <<modelDir, inference_engines, modelMetadata, image, currNetwork,
                   patch_lvl_model, currLvl, renderers, renderersAtStart, runs>>

\* lines 395-419: the CPU-only flag
CpuOverride ==
    /\ pc = "cpu"
    /\ IF StoiThrows(Get(modelMetadata, "cpu"))
         THEN Throw /\ UNCHANGED <<network, log>>
       ELSE /\ pc' = "pin"
            /\ IF Stoi(Get(modelMetadata, "cpu")) = 1
                 THEN IF Find(acceptedModels(modelDir), ".pb") /\ Find(inference_engines, "TensorFlow")
                        THEN /\ network' = [network EXCEPT !.engine = "TensorFlow", !.device = "CPU"]
                             /\ log' = log \o << Event("setInferenceEngine", "network", <<"TensorFlow">>),
                                                 Event("setDeviceType", "network", <<"CPU">>) >>
                      ELSE IF Find(acceptedModels(modelDir), ".xml") /\ Find(inference_engines, "OpenVINO")
                        THEN /\ network' = [network EXCEPT !.engine = "OpenVINO", !.device = "CPU"]
                             /\ log' = log \o << Event("setInferenceEngine", "network", <<"OpenVINO">>),
                                                 Event("setDeviceType", "network", <<"CPU">>) >>
                      ELSE UNCHANGED <<network, log>>
               ELSE UNCHANGED <<network, log>>
    /\ UNCHANGED <<resolverVars, modelMetadata, image, currNetwork, chosenIE, patch_lvl_model,
                   currLvl, renderers, renderersAtStart, outcome, runs>>

\* line 422: the metadata pins a backend
Pinned(md) == ~(Count(md, "IE") = 0 \/ Get(md, "IE") = "none")

\* NeuralNetwork::setInferenceEngine(name) throws when no such engine is available
SetEngineThrows(name, engines) == ~Find(engines, name)

\* getModelFileExtension(engine->getPreferredModelFormat()): decided by the FAST
\* library; for TensorRT either of the two formats it reads
PreferredExt(engine) ==
    IF engine = "TensorFlow" THEN {"pb"}
    ELSE IF engine = "OpenVINO" THEN {"xml"}
    ELSE {"onnx", "uff"}

\* lines 421-427: the pinned backend; setInferenceEngine makes a new engine object,
\* whose device type is the default one
PinnedIE ==
    /\ pc = "pin"
    /\ IF Pinned(modelMetadata)
         THEN LET ie == Get(modelMetadata, "IE") IN
              /\ log' = Append(log, Event("setInferenceEngine", "network", <<ie>>))
              /\ IF SetEngineThrows(ie, inference_engines)
                   THEN Throw /\ UNCHANGED <<network, chosenIE>>
                 ELSE /\ network' = [network EXCEPT !.engine = ie, !.device = "default"]
                      /\ \E ext \in PreferredExt(ie) : chosenIE' = ext
                      /\ pc' = "nodes"
       ELSE pc' = "nodes" /\ UNCHANGED <<network, chosenIE, log>>
    /\ UNCHANGED <<resolverVars, modelMetadata, image, currNetwork, patch_lvl_model,
                   currLvl, renderers, renderersAtStart, outcome, runs>>

\* line 431: engine.substr(0, 10) == "TensorFlow"
IsTensorFlow(engine) == engine \in {"TensorFlow", "TensorFlowCPU", "TensorFlowCUDA"}

\* lines 431-468 throw when a size, channel or class count is no number
NodesThrow(md, engine, ext) ==
    IF IsTensorFlow(engine)
      THEN \/ StoiThrows(Get(md, "input_img_size_y"))
           \/ StoiThrows(Get(md, "input_img_size_x"))
           \/ StoiThrows(Get(md, "nb_channels"))
           \/ /\ Get(md, "problem") \in {"classification", "segmentation", "object_detection"}
              /\ StoiThrows(Get(md, "nb_classes"))
    ELSE IF engine = "TensorRT" /\ ext = "uff"
      THEN \/ StoiThrows(Get(md, "nb_channels"))
           \/ StoiThrows(Get(md, "input_img_size_y"))
           \/ StoiThrows(Get(md, "nb_classes"))
    ELSE FALSE

\* lines 431-468: the node shapes handed to the network, by engine
NodeCalls(md, engine, ext) ==
    LET y == Stoi(Get(md, "input_img_size_y"))
        x == Stoi(Get(md, "input_img_size_x"))
        c == Stoi(Get(md, "nb_channels"))
        n == Stoi(Get(md, "nb_classes"))
    IN IF IsTensorFlow(engine)
         THEN << Event("setInputNode", "network", <<1, y, x, c>>) >>
              \o (IF Get(md, "problem") = "classification"
                    THEN << Event("setOutputNode", "network", <<1, n>>) >>
                  ELSE IF Get(md, "problem") = "segmentation"
                    THEN << Event("setOutputNode", "network", <<1, y, x, n>>) >>
                  ELSE IF Get(md, "problem") = "object_detection"
                    THEN << Event("setOutputNode", "network", <<1, n>>) >>
                  ELSE <<>>)
       ELSE IF engine = "TensorRT" /\ ext = "uff"
         THEN << Event("setInputNode", "network", <<1, c, y, y>>),
                 Event("setOutputNode", "network", <<1, n>>) >>
       ELSE <<>>

\* lines 429-468: input and output nodes
ConfigureNodes ==
    /\ pc = "nodes"
    /\ IF NodesThrow(modelMetadata, network.engine, chosenIE)
         THEN Throw /\ UNCHANGED log
       ELSE /\ pc' = "load"
            /\ log' = log \o NodeCalls(modelMetadata, network.engine, chosenIE)
    /\ UNCHANGED <<resolverVars, modelMetadata, image, network, currNetwork, chosenIE,
                   patch_lvl_model, currLvl, renderers, renderersAtStart, outcome, runs>>

\* lines 470-471: the extension used in the path handed to load
LoadExtensions(engine, ext) ==
    IF engine # "TensorRT" /\ engine # "OpenVINO" THEN PreferredExt(engine) ELSE {ext}

\* lines 470-473: network->load; it throws when the file is missing and may throw
\* when the engine fails on the file
LoadNetwork ==
    /\ pc = "load"
    /\ \E ext \in LoadExtensions(network.engine, chosenIE) :
          /\ chosenIE' = ext
          /\ log' = Append(log, Event("load", "network", <<network.engine, ext>>))
          /\ \/ /\ Find(modelDir, ext)
                /\ network' = [network EXCEPT !.loaded = ext]
                /\ pc' = "input"
             \/ Throw /\ UNCHANGED network
    /\ UNCHANGED <<resolverVars, modelMetadata, image, currNetwork, patch_lvl_model,
                   currLvl, renderers, renderersAtStart, outcome, runs>>

\* lines 484-547: tissue filter and patch generator of the high-resolution path;
\* the calls made, and whether a conversion throws after them
HighResInput(md, lvl) ==
    LET tt == Get(md, "tissue_threshold")
        y == Get(md, "input_img_size_y")
        x == Get(md, "input_img_size_x")
        mask == Get(md, "mask_threshold")
        overlap == Get(md, "patch_overlap")
        tissue == IF tt = "none" \/ tt = "" THEN <<>>
                  ELSE << Event("setThreshold", "tissueSegmentation", <<tt>>) >>
        patch == << Event("setPatchSize", "generator", <<y, x>>),
                    Event("setPatchLevel", "generator", <<lvl>>) >>
        maskCall == IF mask = "" THEN <<>> ELSE << Event("setMaskThreshold", "generator", <<mask>>) >>
        overlapCall == IF overlap = "" THEN <<>> ELSE << Event("setOverlap", "generator", <<overlap>>) >>
    IN IF tt # "none" /\ tt # "" /\ StoiThrows(tt) THEN [calls |-> <<>>, throws |-> TRUE]
       ELSE IF StoiThrows(y) \/ StoiThrows(x) THEN [calls |-> tissue, throws |-> TRUE]
       ELSE IF mask # "" /\ StofThrows(mask) THEN [calls |-> tissue \o patch, throws |-> TRUE]
       ELSE IF overlap # "" /\ StofThrows(overlap)
         THEN [calls |-> tissue \o patch \o maskCall, throws |-> TRUE]
       ELSE [calls |-> tissue \o patch \o maskCall \o overlapCall
                       \o << Event("setInputConnection", "network", <<"generator">>) >>,
             throws |-> FALSE]

\* lines 475-548: the input of the network
BuildInput ==
    /\ pc = "input"
    /\ IF Get(modelMetadata, "resolution") = "low"
         THEN /\ log' = log \o << Event("update", "resizer", <<>>),
                                  Event("setInputData", "network", <<"resizer">>) >>
              /\ pc' = "scale"
       ELSE LET r == HighResInput(modelMetadata, patch_lvl_model) IN
            /\ log' = log \o r.calls
            /\ IF r.throws THEN Throw ELSE pc' = "scale"
    /\ UNCHANGED <<resolverVars, modelMetadata, image, network, currNetwork, chosenIE,
                   patch_lvl_model, currLvl, renderers, renderersAtStart, outcome, runs>>

\* lines 550-560: the intensity scale factor
ScaleFactor ==
    /\ pc = "scale"
    /\ LET sf == Get(modelMetadata, "scale_factor")
           parts == SplitSlash(sf)
       IN IF sf = "" THEN pc' = "branch" /\ UNCHANGED log
          ELSE IF Len(parts) < 2
            \* scale_factor[1] is read out of range: undefined behaviour
            THEN pc' \in {"catch", "crashed", "branch"} /\ UNCHANGED log
          ELSE IF StoiThrows(parts[1]) \/ StoiThrows(parts[2]) THEN Throw /\ UNCHANGED log
          ELSE /\ pc' = "branch"
               /\ log' = Append(log, Event("setScaleFactor", "network", parts))
    /\ UNCHANGED <<resolverVars, modelMetadata, image, network, currNetwork, chosenIE,
                   patch_lvl_model, currLvl, renderers, renderersAtStart, outcome, runs>>

\* the colour loops of lines 579-585, 630-636, 767-774 throw when nb_classes or a
\* colour component is no number
ColorsThrow(md) ==
    \/ StoiThrows(Get(md, "nb_classes"))
    \/ \E i \in 1..Stoi(Get(md, "nb_classes")) :
          /\ i <= Len(Get(md, "class_colors"))
          /\ \E k \in DOMAIN Get(md, "class_colors")[i] : StoiThrows(Get(md, "class_colors")[i][k])

Branch(md, problem, resolution) ==
    Get(md, "problem") = problem /\ Get(md, "resolution") = resolution

unchangedByBranch == <<resolverVars, modelMetadata, image, network, chosenIE,
                       patch_lvl_model, currLvl, renderersAtStart, runs>>

\* lines 564-613: classification x high
ClassificationHigh ==
    /\ pc = "branch"
    /\ Branch(modelMetadata, "classification", "high")
    /\ IF StoiThrows(Get(modelMetadata, "interpolation")) \/ ColorsThrow(modelMetadata)
         THEN /\ Throw
              /\ log' = Append(log, Event("setInputConnection", "stitcher", <<"network">>))
              /\ UNCHANGED <<renderers, outcome>>
       ELSE /\ log' = log \o << Event("setInputConnection", "stitcher", <<"network">>),
                                Event("insert_renderer", "image",
                                      <<Get(modelMetadata, "model_name"), "HeatmapRenderer">>) >>
            /\ renderers' = InsertRenderer(renderers, Get(modelMetadata, "model_name"), "HeatmapRenderer")
            /\ outcome' = "completed"
            /\ pc' = "finish"
    /\ UNCHANGED <<unchangedByBranch, currNetwork>>

\* lines 614-670: segmentation x high
SegmentationHigh ==
    /\ pc = "branch"
    /\ Branch(modelMetadata, "segmentation", "high")
    /\ IF ColorsThrow(modelMetadata)
         THEN /\ Throw
              /\ log' = Append(log, Event("setInputConnection", "stitcher", <<"network">>))
              /\ UNCHANGED <<renderers, outcome>>
       ELSE /\ log' = log \o << Event("setInputConnection", "stitcher", <<"network">>),
                                Event("insert_renderer", "image",
                                      <<Get(modelMetadata, "model_name"), "SegmentationRenderer">>) >>
            /\ renderers' = InsertRenderer(renderers, Get(modelMetadata, "model_name"), "SegmentationRenderer")
            /\ outcome' = "completed"
            /\ pc' = "finish"
    /\ UNCHANGED <<unchangedByBranch, currNetwork>>

\* line 690: anchorVector.resize(6); an added entry is the empty string, a seventh
\* entry is dropped
Resize6(line) == [k \in 1..6 |-> IF k <= Len(line) THEN line[k] ELSE <<"">>]

\* the entries lines 693-700 read, in the order they read them
RECURSIVE AnchorEntries(_)
AnchorEntries(lines) ==
    IF lines = <<>> THEN <<>> ELSE Resize6(Head(lines)) \o AnchorEntries(Tail(lines))

\* line 698 throws on this entry: a component it converts is no number
EntryThrows(t) == StoiThrows(t[1]) \/ (Len(t) >= 2 /\ StoiThrows(t[2]))

\* line 698 reads currentPair[1] of an entry that has no second component
EntryShort(t) == Len(t) < 2

\* the first entry that does not convert, 0 when all do
FirstBadEntry(lines) ==
    LET es == AnchorEntries(lines)
        bad == {i \in DOMAIN es : EntryThrows(es[i]) \/ EntryShort(es[i])}
    IN IF bad = {} THEN 0 ELSE CHOOSE i \in bad : \A j \in bad : i <= j

\* lines 688-703 end in an exception
AnchorsThrow(lines) ==
    FirstBadEntry(lines) # 0 /\ ~EntryShort(AnchorEntries(lines)[FirstBadEntry(lines)])

\* lines 688-703 read past the end of currentPair: undefined behaviour
AnchorsUndefined(lines) ==
    FirstBadEntry(lines) # 0 /\ EntryShort(AnchorEntries(lines)[FirstBadEntry(lines)])

\* stands for the value of a component read past the end of currentPair
UndefinedValue == 0 - 1

\* lines 688-703: two levels of three anchors are pushed for every line of the file
AnchorTable(lines) ==
    [m \in 1..(2 * Len(lines)) |->
        [j \in 1..3 |->
            LET t == Resize6(lines[(m + 1) \div 2])[((m - 1) % 2) * 3 + j]
            IN <<IF StoiThrows(t[1]) THEN UndefinedValue ELSE Stoi(t[1]),
                 IF Len(t) < 2 \/ StoiThrows(t[2]) THEN UndefinedValue ELSE Stoi(t[2])>>]]

\* lines 674-709: the detection network, its threshold, anchors and scale factor;
\* the calls made, and how the step ends
DetectionSetup(md, lines) ==
    LET parts == SplitSlash(Get(md, "scale_factor"))
        threshold == IF Get(md, "pred_threshold") = "" THEN <<>>
                     ELSE << Event("setThreshold", "currNetwork", <<Get(md, "nms_threshold")>>) >>
    IN IF Get(md, "pred_threshold") # "" /\ StofThrows(Get(md, "nms_threshold"))
         THEN [calls |-> <<>>, ends |-> {"catch"}]
       ELSE IF AnchorsThrow(lines) THEN [calls |-> threshold, ends |-> {"catch"}]
       \* a padded or one-component entry: the exception of std::stoi, a crash, or, when
       \* its first component is a number, a table with an undefined value
       ELSE IF AnchorsUndefined(lines)
         THEN IF EntryThrows(AnchorEntries(lines)[FirstBadEntry(lines)])
                THEN [calls |-> threshold, ends |-> {"catch", "crashed"}]
              ELSE [calls |-> threshold \o << Event("setAnchors", "currNetwork", AnchorTable(lines)) >>,
                    ends |-> {"catch", "crashed", "detload"}]
       ELSE LET c1 == threshold \o << Event("setAnchors", "currNetwork", AnchorTable(lines)) >> IN
            \* scale_factor[1] is read out of range: undefined behaviour
            IF Len(parts) < 2 THEN [calls |-> c1, ends |-> {"catch", "crashed", "detload"}]
            ELSE IF StoiThrows(parts[1]) \/ StoiThrows(parts[2]) THEN [calls |-> c1, ends |-> {"catch"}]
            ELSE [calls |-> c1 \o << Event("setScaleFactor", "currNetwork", parts) >>,
                  ends |-> {"detload"}]

\* lines 671-709: object_detection x high, up to the scale factor
ObjectDetectionHigh ==
    /\ pc = "branch"
    /\ Branch(modelMetadata, "object_detection", "high")
    /\ LET r == DetectionSetup(modelMetadata, anchorFile) IN
       /\ log' = log \o r.calls
       /\ pc' \in r.ends
    /\ currNetwork' = NewNetwork("BoundingBoxNetwork")
    /\ UNCHANGED <<unchangedByBranch, renderers, outcome>>

\* lines 710-735: object_detection x high, engine, load, NMS and the renderer
ObjectDetectionLoad ==
    /\ pc = "detload"
    /\ LET setEngine == Event("setInferenceEngine", "currNetwork", <<"OpenVINO">>)
           nms == Get(modelMetadata, "nms_threshold")
       IN IF SetEngineThrows("OpenVINO", inference_engines)
            THEN /\ log' = Append(log, setEngine)
                 /\ Throw
                 /\ UNCHANGED <<currNetwork, renderers, outcome>>
          ELSE \E ext \in PreferredExt("OpenVINO") :
                 LET load == Event("load", "currNetwork", <<"OpenVINO", ext>>) IN
                 \/ /\ log' = log \o <<setEngine, load>>
                    /\ Throw
                    /\ currNetwork' = [currNetwork EXCEPT !.engine = "OpenVINO"]
                    /\ UNCHANGED <<renderers, outcome>>
                 \/ /\ Find(modelDir, ext)
                    /\ currNetwork' = [currNetwork EXCEPT !.engine = "OpenVINO", !.loaded = ext]
                    /\ IF nms # "" /\ StofThrows(nms)
                         THEN /\ log' = log \o <<setEngine, load>>
                              /\ Throw
                              /\ UNCHANGED <<renderers, outcome>>
                       ELSE /\ log' = log \o <<setEngine, load,
                                               Event("setInputConnection", "currNetwork", <<"generator">>),
                                               Event("insert_renderer", "image",
                                                     <<Get(modelMetadata, "model_name"), "BoundingBoxRenderer">>)>>
                            /\ renderers' = InsertRenderer(renderers, Get(modelMetadata, "model_name"),
                                                           "BoundingBoxRenderer")
                            /\ outcome' = "completed"
                            /\ pc' = "finish"
    /\ UNCHANGED unchangedByBranch

SegmentationLowInsertFirst ==
    /\ pc = "branch"
    /\ Branch(modelMetadata, "segmentation", "low")
    /\ renderers' = InsertRenderer(renderers, Get(modelMetadata, "model_name"), "SegmentationRenderer")
    /\ log' = log \o << Event("insert_renderer", "image",
                              <<Get(modelMetadata, "model_name"), "SegmentationRenderer">>),
                        Event("getLevelAsImage", "access", <<currLvl>>),
                        Event("update", "resizer2", <<>>) >>
    /\ \/ Throw /\ UNCHANGED outcome
       \/ ~ColorsThrow(modelMetadata) /\ outcome' = "completed" /\ pc' = "finish"
    /\ UNCHANGED <<unchangedByBranch, currNetwork>>

SegmentationLowHeatmap ==
    /\ pc = "branch"
    /\ Branch(modelMetadata, "segmentation", "low")
    /\ log' = log \o << Event("getLevelAsImage", "access", <<currLvl>>),
                        Event("update", "resizer2", <<>>) >>
    /\ renderers' = InsertRenderer(renderers, Get(modelMetadata, "model_name"), "HeatmapRenderer")
    /\ outcome' = "completed"
    /\ pc' = "finish"
    /\ UNCHANGED <<unchangedByBranch, currNetwork>>

\* lines 736-802: segmentation x low; resizer2->update() runs the network and may throw
SegmentationLow ==
    /\ pc = "branch"
    /\ Branch(modelMetadata, "segmentation", "low")
    /\ \/ /\ log' = log \o << Event("getLevelAsImage", "access", <<currLvl>>),
                              Event("update", "resizer2", <<>>) >>
          /\ Throw
          /\ UNCHANGED <<renderers, outcome>>
       \/ IF ColorsThrow(modelMetadata)
            THEN /\ log' = log \o << Event("getLevelAsImage", "access", <<currLvl>>),
                                     Event("update", "resizer2", <<>>) >>
                 /\ Throw
                 /\ UNCHANGED <<renderers, outcome>>
          ELSE /\ log' = log \o << Event("getLevelAsImage", "access", <<currLvl>>),
                                   Event("update", "resizer2", <<>>),
                                   Event("update", "someRenderer", <<>>),
                                   Event("insert_renderer", "image",
                                         <<Get(modelMetadata, "model_name"), "SegmentationRenderer">>) >>
               /\ renderers' = InsertRenderer(renderers, Get(modelMetadata, "model_name"),
                                              "SegmentationRenderer")
               /\ outcome' = "completed"
               /\ pc' = "finish"
    /\ UNCHANGED <<unchangedByBranch, currNetwork>>

\* lines 564, 614, 671, 736: none of the four conditions holds; nothing is done
NoBranch ==
    /\ pc = "branch"
    /\ ~Branch(modelMetadata, "classification", "high")
    /\ ~Branch(modelMetadata, "segmentation", "high")
    /\ ~Branch(modelMetadata, "object_detection", "high")
    /\ ~Branch(modelMetadata, "segmentation", "low")
    /\ outcome' = "no_branch"
    /\ pc' = "finish"
    /\ UNCHANGED <<unchangedByBranch, currNetwork, log, renderers>>

\* line 804: the end of the guarded block
Finish ==
    /\ pc = "finish"
    /\ pc' = "done"
    /\ UNCHANGED <<resolverVars, modelMetadata, image, network, currNetwork, chosenIE,
                   patch_lvl_model, currLvl, log, renderers, renderersAtStart, outcome, runs>>

\* lines 807-810: the handler of the run; the exception goes no further
Catch ==
    /\ pc = "catch"
    /\ pc' = "done"
    /\ outcome' = "exception"
    /\ UNCHANGED <<resolverVars, modelMetadata, image, network, currNetwork, chosenIE,
                   patch_lvl_model, currLvl, log, renderers, renderersAtStart, runs>>

(***************************************************************************)
(* Specification of the assembler: a model and an image are given, and the *)
(* model is run on the image up to MaxRuns times.                          *)
(***************************************************************************)
Problems == {"classification", "segmentation", "object_detection"}
Resolutions == {"low", "high"}
Absent == "<absent>"

FormatOrder == <<"onnx", "uff", "xml", "pb">>
BackendOrder == <<"TensorRT", "OpenVINO", "TensorFlow">>
InSet(S) == [x \in Formats \cup Backends |-> x \in S]
Listing(order, S) == SelectSeq(order, LAMBDA x : InSet(S)[x])

DefaultMeta(problem, resolution) ==
    [model_name |-> "m", problem |-> problem, resolution |-> resolution,
     input_img_size_x |-> "4", input_img_size_y |-> "2", nb_channels |-> "3",
     nb_classes |-> "2", class_colors |-> << <<"0", "1", "2">>, <<"3", "4", "8">> >>,
     interpolation |-> "0", tissue_threshold |-> "none", scale_factor |-> "1/255",
     pred_threshold |-> "0.25", nms_threshold |-> "0.5"]

With(md, key, value) == IF value = Absent THEN md ELSE (key :> value) @@ md

DefaultImage == [magn |-> 40, downsample |-> "4", levelCount |-> "3",
                 levels |-> << [w |-> 64, h |-> 64], [w |-> 16, h |-> 16], [w |-> 4, h |-> 4] >>]

RunLocalsInit ==
    /\ pc = "idle"
    /\ optimal_set = Unset
    /\ network = NoNetwork
    /\ currNetwork = NoNetwork
    /\ chosenIE = ""
    /\ patch_lvl_model = 0
    /\ currLvl = 0
    /\ log = <<>>
    /\ renderersAtStart = <<>>
    /\ outcome = "none"
    /\ runs = 0

\* every format set, backend set, CPU flag and pinned backend, for every problem and resolution
InitEngines ==
    \E problem \in Problems, resolution \in Resolutions,
       cpu \in {Absent, "0", "1"}, ie \in {Absent, "none"} \cup Backends,
       F \in SUBSET Formats, B \in SUBSET Backends :
        /\ modelMetadata = With(With(DefaultMeta(problem, resolution), "cpu", cpu), "IE", ie)
        /\ modelDir = Listing(FormatOrder, F)
        /\ inference_engines = Listing(BackendOrder, B)
        /\ image = DefaultImage
        /\ renderers = <<>>
        /\ anchorFile = DefaultAnchors

\* metadata with a missing or malformed field, images with other levels, an image
\* that already shows another result
InitMetadata ==
    \E problem \in Problems \cup {"regression"}, resolution \in Resolutions \cup {"medium"},
       field \in { <<"cpu", "0">>, <<"nb_classes", "x">>, <<"input_img_size_y", "x">>,
                   <<"interpolation", "x">>, <<"scale_factor", Absent>>,
                   <<"scale_factor", "x/255">>, <<"scale_factor", "255">>,
                   <<"tissue_threshold", "8">>,
                   <<"tissue_threshold", "x">>, <<"mask_threshold", "0.5">>,
                   <<"patch_overlap", "x">>, <<"nms_threshold", "x">>,
                   <<"magnification_level", "10">>, <<"magnification_level", "20">>,
                   <<"magnification_level", "40">>, <<"magnification_level", "x">> },
       FB \in { <<{"onnx", "pb"}, {"TensorFlow"}>>, <<{"uff", "xml"}, {"TensorRT", "OpenVINO"}>> },
       levelCount \in {"0", "1", "3", "x"}, downsample \in {"2", "4"},
       others \in { <<>>, << <<"other", "SegmentationRenderer">> >> } :
        /\ modelMetadata = With([k \in DOMAIN DefaultMeta(problem, resolution) \ {field[1]} |->
                                    DefaultMeta(problem, resolution)[k]] @@ ("cpu" :> "0"),
                                field[1], field[2])
        /\ modelDir = Listing(FormatOrder, FB[1])
        /\ inference_engines = Listing(BackendOrder, FB[2])
        /\ image = [DefaultImage EXCEPT !.levelCount = levelCount, !.downsample = downsample]
        /\ renderers = others
        /\ anchorFile = DefaultAnchors

\* the pyramids of the low-resolution path: square and flat levels, a level that is
\* too small in the middle of the pyramid, at its end, at level 0, or nowhere
LowResImages ==
    { [DefaultImage EXCEPT !.levelCount = c[1], !.levels = c[2]] :
        c \in { <<"3", << [w |-> 64, h |-> 64], [w |-> 16, h |-> 16], [w |-> 4, h |-> 4] >> >>,
                <<"3", << [w |-> 64, h |-> 64], [w |-> 4, h |-> 4], [w |-> 2, h |-> 2] >> >>,
                <<"3", << [w |-> 64, h |-> 64], [w |-> 32, h |-> 4], [w |-> 4, h |-> 1] >> >>,
                <<"3", << [w |-> 8, h |-> 8], [w |-> 4, h |-> 4], [w |-> 2, h |-> 2] >> >>,
                <<"2", << [w |-> 64, h |-> 64], [w |-> 32, h |-> 32] >> >>,
                <<"1", << [w |-> 4, h |-> 4] >> >>,
                <<"0", << >> >> } }

\* low-resolution runs over those pyramids, for two input sizes
InitImages ==
    \E problem \in {"segmentation", "classification"}, img \in LowResImages,
       size \in { <<"4", "2">>, <<"8", "8">> } :
        /\ modelMetadata = [DefaultMeta(problem, "low") EXCEPT
                                !.input_img_size_x = size[1], !.input_img_size_y = size[2]]
                            @@ ("cpu" :> "0")
        /\ modelDir = Listing(FormatOrder, {"onnx", "pb"})
        /\ inference_engines = Listing(BackendOrder, {"TensorFlow"})
        /\ image = img
        /\ renderers = <<>>
        /\ anchorFile = DefaultAnchors

\* high-resolution runs on images scanned at 10x, 20x and 40x, for models trained at
\* 10x, 20x and 40x
InitMagnification ==
    \E problem \in Problems, magn \in {10, 20, 40}, level \in {"10", "20", "40"},
       downsample \in {"2", "3", "4"} :
        /\ modelMetadata = [k \in DOMAIN DefaultMeta(problem, "high") \cup {"cpu", "magnification_level"} |->
                                IF k = "cpu" THEN "0"
                                ELSE IF k = "magnification_level" THEN level
                                ELSE DefaultMeta(problem, "high")[k]]
        /\ modelDir = Listing(FormatOrder, {"onnx", "xml"})
        /\ inference_engines = Listing(BackendOrder, {"OpenVINO"})
        /\ image = [DefaultImage EXCEPT !.magn = magn, !.downsample = downsample]
        /\ renderers = <<>>
        /\ anchorFile = DefaultAnchors

\* anchor files of the object_detection runs: no line (also: no file), one line, two
\* lines, a line of four entries, a line of seven, an entry without "," and one that is
\* no number
AnchorFiles ==
    { <<>>,
      DefaultAnchors,
      DefaultAnchors \o DefaultAnchors,
      << SubSeq(DefaultAnchors[1], 1, 4) >>,
      << DefaultAnchors[1] \o << <<"20", "40">> >> >>,
      << [DefaultAnchors[1] EXCEPT ![2] = <<"8">>] >>,
      << [DefaultAnchors[1] EXCEPT ![2] = <<"x", "2">>] >> }

InitAnchors ==
    \E resolution \in Resolutions, lines \in AnchorFiles,
       B \in { {"OpenVINO"}, {"TensorRT", "OpenVINO"}, {"TensorRT"} } :
        /\ modelMetadata = DefaultMeta("object_detection", resolution) @@ ("cpu" :> "0")
        /\ modelDir = Listing(FormatOrder, {"onnx", "xml"})
        /\ inference_engines = Listing(BackendOrder, B)
        /\ image = DefaultImage
        /\ renderers = <<>>
        /\ anchorFile = lines

InitRun ==
    RunLocalsInit /\ StoreIdle /\ ProjectIdle /\ RegistryIdle
    /\ (InitEngines \/ InitMetadata \/ InitImages \/ InitMagnification \/ InitAnchors)

NextRun ==
    \/ StartRun /\ UNCHANGED anchorFile /\ UNCHANGED storeVars /\ UNCHANGED projectVars /\ UNCHANGED registryVars
    \/ Enter /\ UNCHANGED anchorFile /\ UNCHANGED storeVars /\ UNCHANGED projectVars /\ UNCHANGED registryVars
    \/ ResolutionStrategy /\ UNCHANGED anchorFile /\ UNCHANGED storeVars /\ UNCHANGED projectVars /\ UNCHANGED registryVars
    \/ SelectEngine /\ UNCHANGED anchorFile /\ UNCHANGED storeVars /\ UNCHANGED projectVars /\ UNCHANGED registryVars
    \/ CpuOverride /\ UNCHANGED anchorFile /\ UNCHANGED storeVars /\ UNCHANGED projectVars /\ UNCHANGED registryVars
    \/ PinnedIE /\ UNCHANGED anchorFile /\ UNCHANGED storeVars /\ UNCHANGED projectVars /\ UNCHANGED registryVars
    \/ ConfigureNodes /\ UNCHANGED anchorFile /\ UNCHANGED storeVars /\ UNCHANGED projectVars /\ UNCHANGED registryVars
    \/ LoadNetwork /\ UNCHANGED anchorFile /\ UNCHANGED storeVars /\ UNCHANGED projectVars /\ UNCHANGED registryVars
    \/ BuildInput /\ UNCHANGED anchorFile /\ UNCHANGED storeVars /\ UNCHANGED projectVars /\ UNCHANGED registryVars
    \/ ScaleFactor /\ UNCHANGED anchorFile /\ UNCHANGED storeVars /\ UNCHANGED projectVars /\ UNCHANGED registryVars
    \/ ClassificationHigh /\ UNCHANGED anchorFile /\ UNCHANGED storeVars /\ UNCHANGED projectVars /\ UNCHANGED registryVars
    \/ SegmentationHigh /\ UNCHANGED anchorFile /\ UNCHANGED storeVars /\ UNCHANGED projectVars /\ UNCHANGED registryVars
    \/ ObjectDetectionHigh /\ UNCHANGED anchorFile /\ UNCHANGED storeVars /\ UNCHANGED projectVars /\ UNCHANGED registryVars
    \/ ObjectDetectionLoad /\ UNCHANGED anchorFile /\ UNCHANGED storeVars /\ UNCHANGED projectVars /\ UNCHANGED registryVars
    \/ SegmentationLow /\ UNCHANGED anchorFile /\ UNCHANGED storeVars /\ UNCHANGED projectVars /\ UNCHANGED registryVars
    \/ NoBranch /\ UNCHANGED anchorFile /\ UNCHANGED storeVars /\ UNCHANGED projectVars /\ UNCHANGED registryVars
    \/ Finish /\ UNCHANGED anchorFile /\ UNCHANGED storeVars /\ UNCHANGED projectVars /\ UNCHANGED registryVars
    \/ Catch /\ UNCHANGED anchorFile /\ UNCHANGED storeVars /\ UNCHANGED projectVars /\ UNCHANGED registryVars

Spec == InitRun /\ [][NextRun]_vars

(***************************************************************************)
(* Claims about the assembler                                              *)
(***************************************************************************)
ModelName == Get(modelMetadata, "model_name")

\* number of renderers registered under a name
Registered(rs, name) == Cardinality({i \in DOMAIN rs : rs[i][1] = name})

NoCandidate ==
    \A k \in DOMAIN PriorityOrder :
        ~Available(PriorityOrder[k], Range(modelDir), Range(inference_engines))

\* C3: when no (format, backend) pair of the priority list is available, the engine
\* selection of the run returns the empty pair and the run ends there: no engine is
\* set on the network, no network is loaded, and no renderer is registered.
C3_NoEngineNoRun ==
    (optimal_set # Unset /\ NoCandidate) =>
        /\ optimal_set = EmptyPair
        /\ pc \in {"finish", "done"}
        /\ outcome = "no_engine"
        /\ \A i \in DOMAIN log : log[i].op \notin {"setInferenceEngine", "load", "insert_renderer"}
        /\ network.engine = "default" /\ network.loaded = ""
        /\ renderers = renderersAtStart

\* C3 witness: a run ended at the engine selection although model files and
\* backends both exist
C3_Witness ==
    /\ pc = "done"
    /\ outcome = "no_engine"
    /\ modelDir # <<>>
    /\ inference_engines # <<>>

\* the formats an engine reads
Consumes(engine) ==
    IF engine = "TensorRT" THEN {"onnx", "uff"}
    ELSE IF engine = "OpenVINO" THEN {"onnx", "xml"}
    ELSE IF IsTensorFlow(engine) THEN {"pb"}
    ELSE {}

\* C4: whenever load is called on a network, the extension of the path is a format
\* the engine set on that network at that moment reads (onnx or uff for TensorRT,
\* onnx or xml for OpenVINO, pb for TensorFlow).
C4_LoadedFormatConsumable ==
    \A i \in DOMAIN log :
        log[i].op = "load" => log[i].arg[2] \in Consumes(log[i].arg[1])

ConfigOps == {"setInferenceEngine", "setDeviceType", "setInputNode", "setOutputNode",
              "setScaleFactor", "setThreshold", "setAnchors", "load"}

\* C5: every configuration call of the run on the network or on the detection
\* network (setInferenceEngine, setDeviceType, setInputNode, setOutputNode,
\* setScaleFactor, load) comes after the call of selectOptimalInferenceEngine.
C5_SelectionBeforeConfiguration ==
    \A i \in DOMAIN log :
        (log[i].op \in ConfigOps /\ log[i].net \in {"network", "currNetwork"})
            => \E j \in 1..(i - 1) : log[j].op = "selectOptimalInferenceEngine"

\* C5 witness: the detection network of the object_detection branch was loaded
C5_Witness ==
    \E i \in DOMAIN log : log[i].op = "load" /\ log[i].net = "currNetwork"

\* C6: at most one renderer is ever registered under the model's name, and a run
\* entered when the image already has a renderer under that name selects no engine,
\* makes no call at all and leaves the image's renderers as they were.
C6_IdempotentRegistration ==
    /\ Registered(renderers, ModelName) <= 1
    /\ HasRenderer(renderersAtStart, ModelName) =>
          /\ log = <<>>
          /\ optimal_set = Unset
          /\ network = NoNetwork
          /\ renderers = renderersAtStart
          /\ pc = "enter" \/ (pc = "done" /\ outcome = "skipped")

\* C6 witness: the model was run a second time on the image that shows its result
C6_Witness ==
    /\ runs = 2
    /\ pc = "done"
    /\ outcome = "skipped"
    /\ Registered(renderers, ModelName) = 1

\* the renderer of each of the four branches
SinkKind(md) ==
    IF Branch(md, "classification", "high") THEN "HeatmapRenderer"
    ELSE IF Branch(md, "segmentation", "high") THEN "SegmentationRenderer"
    ELSE IF Branch(md, "segmentation", "low") THEN "SegmentationRenderer"
    ELSE IF Branch(md, "object_detection", "high") THEN "BoundingBoxRenderer"
    ELSE "none"

\* C7: a run of one of the four branches (classification x high, segmentation x high,
\* segmentation x low, object_detection x high) that reaches its end without an
\* exception and without an abort, on an image with no renderer under the model's
\* name, has registered exactly one renderer, under the model's name, of the kind
\* of its branch.
C7_OneSinkOfBranchKind ==
    (/\ pc = "done"
     /\ outcome \in {"completed", "no_branch"}
     /\ SinkKind(modelMetadata) # "none"
     /\ ~HasRenderer(renderersAtStart, ModelName))
        => /\ renderers = Append(renderersAtStart, <<ModelName, SinkKind(modelMetadata)>>)
           /\ Registered(renderers, ModelName) = 1

\* C7 witness: a segmentation x low run ended on an image that already showed
\* another result
C7_Witness ==
    /\ pc = "done"
    /\ outcome = "completed"
    /\ Branch(modelMetadata, "segmentation", "low")
    /\ renderersAtStart # <<>>

\* C8: a run in which a step throws goes to the handler of the run and ends there,
\* and has registered no renderer: the image's renderers are those from before the run.
C8_FailedRunLeavesRenderers ==
    /\ []((pc = "catch" \/ outcome = "exception")
            => /\ renderers = renderersAtStart
               /\ \A i \in DOMAIN log : log[i].op # "insert_renderer")
    /\ [][pc = "catch" => (pc' = "done" /\ outcome' = "exception")]_vars
    /\ [](outcome = "exception" => pc = "done")

\* C8 witness: a run whose load was called ended by an exception, on an image that
\* shows another result
C8_Witness ==
    /\ pc = "done"
    /\ outcome = "exception"
    /\ renderers # <<>>
    /\ \E i \in DOMAIN log : log[i].op = "load"


\* the low-resolution input of the run
InputWidth == Stoi(Get(modelMetadata, "input_img_size_x"))
InputHeight == Stoi(Get(modelMetadata, "input_img_size_y"))
LevelCount == Stoi(image.levelCount)

\* the level of the specification: (i - 1) at the first level i that is too small,
\* the coarsest level when no level is
ScanThenCoarsest ==
    LET found == ScanLevel(image, LevelCount, InputWidth, InputHeight) IN
    IF found = 0 - 2 THEN LevelCount - 1 ELSE found

\* the run took the low-resolution path and chose its level without an exception
LowResChosen ==
    /\ Get(modelMetadata, "resolution") = "low"
    /\ pc \notin {"idle", "enter", "resolution", "catch"}
    /\ outcome \notin {"skipped", "exception"}

\* C12: on the low-resolution path the level chosen is (i - 1) for the first level i,
\* scanning from level 0, whose width or height is at most twice the input size; the
\* coarsest level levelCount - 1 is chosen only when no level is.
C12_FirstViolatingLevel ==
    LowResChosen => currLvl = ScanThenCoarsest

\* the levels passed to getLevelAsImage by the run
LevelsRead == { log[i].arg[1] : i \in { k \in DOMAIN log : log[k].op = "getLevelAsImage" } }

AtLeastTwiceInput(lvl) ==
    /\ image.levels[lvl + 1].w >= 2 * InputWidth
    /\ image.levels[lvl + 1].h >= 2 * InputHeight

\* C13: every level passed to getLevelAsImage on the low-resolution path has width and
\* height of at least twice the model input size, or it is the coarsest level of the
\* pyramid.
C13_LevelLargeEnoughOrCoarsest ==
    \A lvl \in LevelsRead : AtLeastTwiceInput(lvl) \/ lvl = LevelCount - 1

\* C13 witness: a pyramid whose middle level is already too small was read at its
\* coarsest level, which is smaller than twice the input size
C13_Witness ==
    /\ LevelsRead # {}
    /\ \E lvl \in LevelsRead : ~AtLeastTwiceInput(lvl)
    /\ \E i \in 0..(LevelCount - 2) : LevelViolates(image, i, InputWidth, InputHeight)


\* the run has made its engine selection and has not ended in an exception
SelectionMade ==
    /\ \E i \in DOMAIN log : log[i].op = "selectOptimalInferenceEngine"
    /\ pc \notin {"cpu", "pin", "catch"}
    /\ outcome # "exception"

\* C14: when the metadata pins a backend (key IE present and not "none"), the network
\* of the run is on the pinned backend once the engine is selected, whatever the
\* priority search returned, also when it found no (format, backend) pair.
C14_PinnedBackendUsed ==
    (Pinned(modelMetadata) /\ SelectionMade) => network.engine = Get(modelMetadata, "IE")


\* lines 398-411: the CPU alternatives the run looks for, in its order of preference
CpuAlternatives ==
    (IF "pb" \in Range(modelDir) /\ "TensorFlow" \in Range(inference_engines)
        THEN {"TensorFlow"} ELSE {})
    \cup (IF "xml" \in Range(modelDir) /\ "OpenVINO" \in Range(inference_engines)
        THEN {"OpenVINO"} ELSE {})

\* the run has a CPU-only model and has settled the engine it loads the network on
CpuOnlyEngineSettled ==
    /\ Get(modelMetadata, "cpu") = "1"
    /\ optimal_set # Unset /\ optimal_set[2] # ""
    /\ pc \in {"nodes", "load", "input", "scale", "branch", "detload"}

\* C15: with the CPU-only flag set, the engine the network is finally on is a
\* CPU-capable alternative with device type CPU whenever one exists among the installed
\* backends and the available formats; when none exists the run goes on with the
\* engine of the priority search.
C15_CpuOnlyEngine ==
    CpuOnlyEngineSettled =>
        IF CpuAlternatives # {}
        THEN network.engine \in CpuAlternatives /\ network.device = "CPU"
        ELSE network.engine = optimal_set[1]


\* the run has registered a BoundingBoxRenderer for the model
DetectionRegistered ==
    /\ Branch(modelMetadata, "object_detection", "high")
    /\ ~HasRenderer(renderersAtStart, ModelName)
    /\ \E i \in DOMAIN renderers : renderers[i] = <<ModelName, "BoundingBoxRenderer">>

\* C16: the object_detection x high path supports OpenVINO only: a run whose resolved
\* engine is another backend, or on a host without OpenVINO, fails and registers no
\* BoundingBoxRenderer; so a registered BoundingBoxRenderer means the engine resolved
\* for the run is OpenVINO and OpenVINO is installed.
C16_DetectionOnlyOnOpenVINO ==
    DetectionRegistered =>
        /\ network.engine = "OpenVINO"
        /\ "OpenVINO" \in Range(inference_engines)


\* the run computed a negative level on the path it takes
NegativeLevel ==
    /\ pc \notin {"idle", "enter", "catch"}
    /\ outcome \notin {"skipped", "exception"}
    /\ IF Get(modelMetadata, "resolution") = "low"
         THEN pc # "resolution" /\ currLvl < 0
       ELSE patch_lvl_model < 0

\* C17: a negative computed level (the magnification-derived patch level of the
\* high-resolution path, the level chosen on the low-resolution path) aborts the run:
\* no stage is handed a negative level, no network is loaded and no renderer is
\* registered.
C17_NegativeLevelAborts ==
    /\ \A i \in DOMAIN log :
          log[i].op \in {"setPatchLevel", "getLevelAsImage"} => log[i].arg[1] >= 0
    /\ NegativeLevel =>
          /\ \A i \in DOMAIN log : log[i].op # "load"
          /\ renderers = renderersAtStart


\* the problem / resolution combination is none of the four the assembler builds
Unsupported(md) == SinkKind(md) = "none"

\* C18: for an unsupported problem / resolution combination (classification x low,
\* object_detection x low, an unknown problem or resolution) the run is aborted for
\* that model: no network is loaded, no inference stage is set up and no renderer is
\* registered.
C18_UnsupportedCombinationAborts ==
    (Unsupported(modelMetadata) /\ pc # "idle") =>
        /\ \A i \in DOMAIN log : log[i].op # "load"
        /\ \A i \in DOMAIN log :
              log[i].net = "network" => log[i].op \notin {"setInputData", "setInputConnection"}
        /\ network.loaded = ""
        /\ renderers = renderersAtStart


\* the anchor tables handed to setAnchors by the run
TablesSet == { log[i].arg : i \in { k \in DOMAIN log : log[k].op = "setAnchors" } }

\* C19: the anchor table handed to setAnchors has exactly two detection layers of
\* three (width, height) anchors each, whatever the anchor file holds: no line, one
\* line, several lines.
C19_TwoLayersOfThreeAnchors ==
    \A table \in TablesSet :
        /\ Len(table) = 2
        /\ \A m \in DOMAIN table : Len(table[m]) = 3

\* the anchor file has a line of fewer than 6 entries
ShortAnchorLine == \E l \in DOMAIN anchorFile : Len(anchorFile[l]) < 6

\* C20: with an anchor line of fewer than 6 entries the detection run either pads the
\* line with defined values or fails explicitly: it never hands on a table with
\* undefined entries, it ends in the handler of the run and not in a crash, and it
\* registers no renderer.
C20_ShortAnchorLineFailsExplicitly ==
    (Branch(modelMetadata, "object_detection", "high") /\ ShortAnchorLine) =>
        /\ \A table \in TablesSet : \A m \in DOMAIN table : \A j \in DOMAIN table[m] :
              table[m][j][1] # UndefinedValue /\ table[m][j][2] # UndefinedValue
        /\ pc # "crashed"
        /\ renderers = renderersAtStart

\* the node shapes the run has set on its network, in order
NodeShapes ==
    SelectSeq(log, LAMBDA e : e.net = "network" /\ e.op \in {"setInputNode", "setOutputNode"})

MetaNumber(key) == Stoi(Get(modelMetadata, key))

\* C24: node shapes by backend family, once the nodes are configured: a
\* TensorFlow-family engine gets the input shape (1, height, width, channels) and the
\* output shape (1, nb_classes) for classification and object_detection and
\* (1, height, width, nb_classes) for segmentation; TensorRT with the uff format gets
\* the channel-first input shape (1, channels, height, width), height being
\* input_img_size_y and width input_img_size_x, and the output shape (1, nb_classes);
\* no shape is set for any other engine.
C24_NodeShapesByBackend ==
    (pc = "load" /\ Get(modelMetadata, "problem") \in Problems) =>
        IF IsTensorFlow(network.engine)
          THEN NodeShapes =
                 << Event("setInputNode", "network",
                          <<1, MetaNumber("input_img_size_y"), MetaNumber("input_img_size_x"),
                            MetaNumber("nb_channels")>>),
                    Event("setOutputNode", "network",
                          IF Get(modelMetadata, "problem") = "segmentation"
                            THEN <<1, MetaNumber("input_img_size_y"), MetaNumber("input_img_size_x"),
                                   MetaNumber("nb_classes")>>
                          ELSE <<1, MetaNumber("nb_classes")>>) >>
        ELSE IF network.engine = "TensorRT" /\ chosenIE = "uff"
          THEN NodeShapes =
                 << Event("setInputNode", "network",
                          <<1, MetaNumber("nb_channels"), MetaNumber("input_img_size_y"),
                            MetaNumber("input_img_size_x")>>),
                    Event("setOutputNode", "network", <<1, MetaNumber("nb_classes")>>) >>
        ELSE NodeShapes = <<>>

\* log(n / d) / log(b) rounded to the nearest integer, halves away from zero, for
\* n >= d: the quotient q has floor k, and q >= k + 1/2 iff (n / d)^2 >= b^(2k + 1)
RoundLogUp(n, d, b) ==
    LET k == FloorLog(b, n, d) IN
    IF n * n >= d * d * Pow(b, 2 * k + 1) THEN k + 1 ELSE k

RoundLogRatio(n, d, b) == IF n >= d THEN RoundLogUp(n, d, b) ELSE 0 - RoundLogUp(d, n, b)

\* the patch level of the specification for the image and the model of the run
RoundedPatchLevel ==
    IF Get(modelMetadata, "magnification_level") = "" THEN 0
    ELSE RoundLogRatio(image.magn, Stoi(Get(modelMetadata, "magnification_level")),
                       Stoi(image.downsample))

\* C25: the patch level handed to the tiling stage of the high-resolution path is
\* round(log(image magnification / model magnification) / log(round(downsample))),
\* the nearest integer and not the quotient cut towards zero; it is 0 when the model
\* has no magnification_level.
C25_PatchLevelRounded ==
    \A i \in DOMAIN log : log[i].op = "setPatchLevel" => log[i].arg[1] = RoundedPatchLevel

\* C26: on the object_detection path, when the metadata defines pred_threshold the
\* confidence threshold set on the detection network is the value of pred_threshold,
\* whatever nms_threshold is; nms_threshold goes to the NMS stage only.
C26_ConfidenceThresholdIsPredThreshold ==
    \A i \in DOMAIN log :
        (log[i].op = "setThreshold" /\ log[i].net = "currNetwork") =>
            log[i].arg = <<Get(modelMetadata, "pred_threshold")>>

\* the run ended in the handler right after its engine selection: nothing was called
\* between network->setInferenceEngine(optimal_set.first) and the exception
FailedAtCpuFlag ==
    /\ pc = "catch"
    /\ Len(log) >= 2
    /\ log[Len(log) - 1].op = "selectOptimalInferenceEngine"
    /\ log[Len(log)].op = "setInferenceEngine"

\* C27: a model whose metadata has no cpu key runs on the engine of the priority
\* search: the missing flag does not make the run fail.
C27_MissingCpuFlagTolerated ==
    Count(modelMetadata, "cpu") = 0 => ~FailedAtCpuFlag

(***************************************************************************)
(* Result store: Project::saveResults and Project::loadResults on the      *)
(* folder <root>/results/<wsi_uid>/ of one image                           *)
(***************************************************************************)
MaxSaves == 2
MaxEdits == 1

DataNames == {"a", "b"}
\* std::map iterates its keys in increasing order
DataNameOrder == <<"a", "b">>
\* getNameOfClass of a data object; "Mesh" stands for every class saveResults does not export
DataTypes == {"ImagePyramid", "Image", "Tensor", "Mesh"}

NoFile == <<"<no file>">>
AttributesFile == <<"attributes", ".txt">>

\* a renderer: its class and the value of each of its attributes
SegRenderer(opacity, colors) ==
    [class |-> "SegmentationRenderer",
     attrs |-> [opacity |-> <<opacity>>, colors |-> colors]]
HeatRenderer(opacity) ==
    [class |-> "HeatmapRenderer",
     attrs |-> [opacity |-> <<opacity>>, colors |-> <<"1", "green">>]]
PyramidRenderer == [class |-> "ImagePyramidRenderer", attrs |-> [opacity |-> <<"1">>]]

\* Renderer::attributesToString: one line "Attribute <name> <values...>" per attribute
attributesToString(r) ==
    << <<"Attribute", "opacity">> \o r.attrs.opacity,
       <<"Attribute", "colors">> \o r.attrs.colors >>

RECURSIVE AttributeLines(_)
\* the text saveResults writes to attributes.txt: the attributes of every renderer of
\* the pipeline that is not an ImagePyramidRenderer, in the order of getRenderers()
AttributeLines(rs) ==
    IF rs = <<>> THEN <<>>
    ELSE (IF Head(rs).class # "ImagePyramidRenderer" THEN attributesToString(Head(rs)) ELSE <<>>)
            \o AttributeLines(Tail(rs))

ExportExtTensorAsMhd(type) ==
    CASE type = "ImagePyramid" -> ".tiff"
      [] type = "Image" -> ".mhd"
      [] type = "Tensor" -> ".mhd"
      [] OTHER -> ""

\* the file extension saveResults exports a data type to; "" when it exports nothing
ExportExt(type) ==
    CASE type = "ImagePyramid" -> ".tiff"
      [] type = "Image" -> ".mhd"
      [] type = "Tensor" -> ".hdf5"
      [] OTHER -> ""

\* createDirectories: an existing directory keeps its files
CreateDirectories(dsk, d) ==
    IF d \in DOMAIN dsk THEN dsk ELSE (d :> [files |-> {}, attributes |-> NoFile]) @@ dsk

\* the pipelines the model saves: their name and renderers
SavedPipelines ==
    { [name |-> "p", renderers |-> rs] :
        rs \in { << PyramidRenderer >>,
                 << PyramidRenderer, SegRenderer("0.5", <<"1", "red">>) >>,
                 << PyramidRenderer, SegRenderer("0.5", <<"1", "red">>), HeatRenderer("0.3") >>,
                 << PyramidRenderer, SegRenderer("0.5", <<"1", "red">>),
                    SegRenderer("0.8", <<"1", "blue">>) >> } }
    \cup { [name |-> "q", renderers |-> << PyramidRenderer, SegRenderer("0.5", <<"1", "red">>) >>] }

\* pipelineData as the loop of saveResults visits it: <<dataName, dataTypeName>> in key order
PipelineDataLists ==
    { << <<DataNameOrder[1], t>> >> : t \in DataTypes } \cup
    { << <<DataNameOrder[2], t>> >> : t \in {"Image", "Mesh"} } \cup
    { << <<DataNameOrder[1], t>>, <<DataNameOrder[2], u>> >> :
          t \in {"Image", "Tensor"}, u \in {"ImagePyramid", "Mesh"} }

\* saveResults is called
SaveStart ==
    /\ savePc \in {"idle", "done", "failed"}
    /\ loadPc = "idle"
    /\ saves < MaxSaves
    /\ \E pipeline \in SavedPipelines, data \in PipelineDataLists :
          /\ saveArgs' = pipeline
          /\ saveTodo' = data
    /\ savePc' = "loop"
    /\ saves' = saves + 1
    /\ UNCHANGED <<disk, loadPc, loadDirs, loadCur, loadFiles, view, edits>>

\* one iteration of the loop of saveResults: the directory, the export, attributes.txt.
\* An exception of exporter->run() leaves saveResults at once.
SaveItem ==
    /\ savePc = "loop"
    /\ saveTodo # <<>>
    /\ LET dataName == Head(saveTodo)[1]
           ext == ExportExt(Head(saveTodo)[2])
           saveFolder == <<saveArgs.name, dataName>>
           created == CreateDirectories(disk, saveFolder)
           exported == IF ext = "" THEN created
                       ELSE [created EXCEPT ![saveFolder].files = @ \cup {<<dataName, ext>>}]
       IN \E exporterThrows \in BOOLEAN :
            IF ext # "" /\ exporterThrows
            THEN /\ disk' = created
                 /\ savePc' = "failed"
                 /\ saveTodo' = <<>>
            ELSE /\ disk' = [exported EXCEPT ![saveFolder].attributes =
                                                  AttributeLines(saveArgs.renderers)]
                 /\ savePc' = "loop"
                 /\ saveTodo' = Tail(saveTodo)
    /\ UNCHANGED <<saveArgs, saves, loadPc, loadDirs, loadCur, loadFiles, view, edits>>

\* the loop of saveResults is over
SaveReturn ==
    /\ savePc = "loop"
    /\ saveTodo = <<>>
    /\ savePc' = "done"
    /\ UNCHANGED <<disk, saveArgs, saveTodo, saves, loadPc, loadDirs, loadCur, loadFiles,
                   view, edits>>

\* the files a directory listing of a result directory returns
FilesOf(d) ==
    disk[d].files \cup (IF disk[d].attributes = NoFile THEN {} ELSE {AttributesFile})

\* the renderer loadResults creates for a file extension; "" when it creates none
RendererFor(extension) ==
    CASE extension = ".tiff" -> "SegmentationRenderer"
      [] extension = ".mhd" -> "SegmentationRenderer"
      [] extension = ".hdf5" -> "HeatmapRenderer"
      [] OTHER -> ""

\* a renderer as create() returns it
CreatedRenderer(class) ==
    [class |-> class, attrs |-> [opacity |-> <<"1">>, colors |-> <<>>]]

RECURSIVE ParseAttributesFirstWins(_, _, _)
ParseAttributesFirstWins(lines, i, attrs) ==
    IF i > Len(lines) THEN [throws |-> FALSE, attrs |-> attrs]
    ELSE LET tokens == lines[i] IN
         IF tokens[1] # "Attribute" THEN [throws |-> FALSE, attrs |-> attrs]
         ELSE IF Len(tokens) < 3 THEN [throws |-> TRUE, attrs |-> attrs]
         ELSE IF tokens[2] \notin DOMAIN attrs THEN [throws |-> TRUE, attrs |-> attrs]
         ELSE LET rest == ParseAttributesFirstWins(lines, i + 1, attrs) IN
              [throws |-> rest.throws,
               attrs |-> [rest.attrs EXCEPT ![tokens[2]] = SubSeq(tokens, 3, Len(tokens))]]

RECURSIVE ParseAttributes(_, _, _)
\* the do-while of loadResults from line i on: stops at the first line that does not
\* start with "Attribute" and at the end of the file, throws on a line of fewer than
\* 3 items, and sets the named attribute to the rest of the line otherwise
ParseAttributes(lines, i, attrs) ==
    IF i > Len(lines) THEN [throws |-> FALSE, attrs |-> attrs]
    ELSE LET tokens == lines[i] IN
         IF tokens[1] # "Attribute" THEN [throws |-> FALSE, attrs |-> attrs]
         ELSE IF Len(tokens) < 3 THEN [throws |-> TRUE, attrs |-> attrs]
         ELSE IF tokens[2] \notin DOMAIN attrs THEN [throws |-> TRUE, attrs |-> attrs]
         ELSE ParseAttributes(lines, i + 1,
                              [attrs EXCEPT ![tokens[2]] = SubSeq(tokens, 3, Len(tokens))])

\* loadResults is called: it returns at once when the image has no result folder
LoadStart ==
    /\ loadPc = "idle"
    /\ savePc \in {"done", "failed"}
    /\ IF DOMAIN disk = {}
       THEN /\ loadPc' = "done"
            /\ loadDirs' = {}
       ELSE /\ loadPc' = "loop"
            /\ loadDirs' = DOMAIN disk
    /\ UNCHANGED <<disk, savePc, saveArgs, saveTodo, saves, loadCur, loadFiles, view, edits>>

\* the two outer loops of loadResults reach the next result directory: the directories
\* of one pipeline come one after the other, in the order the listing returns them
LoadDir ==
    /\ loadPc = "loop"
    /\ loadFiles = {}
    /\ \E d \in loadDirs :
          /\ (\E e \in loadDirs : e[1] = loadCur[1]) => d[1] = loadCur[1]
          /\ loadCur' = d
          /\ loadFiles' = FilesOf(d)
          /\ loadDirs' = loadDirs \ {d}
    /\ UNCHANGED <<disk, savePc, saveArgs, saveTodo, saves, loadPc, view, edits>>

\* the inner loop of loadResults reads one file of the directory. An exception leaves
\* loadResults at once: nothing in it catches.
LoadFile ==
    /\ loadPc = "loop"
    /\ \E filename \in loadFiles :
          LET extension == filename[2]
              class == RendererFor(extension)
              parsed == ParseAttributes(disk[loadCur].attributes, 1, CreatedRenderer(class).attrs)
              failed == \/ extension = ""
                        \/ class # "" /\ disk[loadCur].attributes = NoFile
                        \/ class # "" /\ parsed.throws
          IN IF failed
             THEN /\ loadPc' = "failed"
                  /\ loadFiles' = {}
                  /\ loadDirs' = {}
                  /\ view' = view
             ELSE /\ loadPc' = "loop"
                  /\ loadFiles' = loadFiles \ {filename}
                  /\ loadDirs' = loadDirs
                  /\ view' = IF class = "" THEN view
                             ELSE Append(view, [dir |-> loadCur, file |-> filename,
                                                class |-> class, attrs |-> parsed.attrs])
    /\ UNCHANGED <<disk, savePc, saveArgs, saveTodo, saves, loadCur, edits>>

\* the loops of loadResults are over
LoadReturn ==
    /\ loadPc = "loop"
    /\ loadFiles = {}
    /\ loadDirs = {}
    /\ loadPc' = "done"
    /\ UNCHANGED <<disk, savePc, saveArgs, saveTodo, saves, loadDirs, loadCur, loadFiles,
                   view, edits>>

\* between a save and a load, attributes.txt of a result directory is deleted
RemoveAttributes ==
    /\ savePc \in {"done", "failed"}
    /\ loadPc = "idle"
    /\ edits < MaxEdits
    /\ \E d \in DOMAIN disk :
          /\ disk[d].attributes # NoFile
          /\ disk' = [disk EXCEPT ![d].attributes = NoFile]
    /\ edits' = edits + 1
    /\ UNCHANGED <<savePc, saveArgs, saveTodo, saves, loadPc, loadDirs, loadCur, loadFiles, view>>

\* between a save and a load, a line "Attribute onlyonetoken" is put in front of
\* attributes.txt of a result directory
CorruptAttributes ==
    /\ savePc \in {"done", "failed"}
    /\ loadPc = "idle"
    /\ edits < MaxEdits
    /\ \E d \in DOMAIN disk :
          /\ disk[d].attributes # NoFile
          /\ disk' = [disk EXCEPT ![d].attributes = << <<"Attribute", "onlyonetoken">> >> \o @]
    /\ edits' = edits + 1
    /\ UNCHANGED <<savePc, saveArgs, saveTodo, saves, loadPc, loadDirs, loadCur, loadFiles, view>>

\* between a save and a load, a file that is no result is put into a result directory:
\* one with another extension, or one with no "." in its name
AddStrayFile ==
    /\ savePc \in {"done", "failed"}
    /\ loadPc = "idle"
    /\ edits < MaxEdits
    /\ \E d \in DOMAIN disk, f \in { <<"notes", ".log">>, <<"README", "">> } :
          disk' = [disk EXCEPT ![d].files = @ \cup {f}]
    /\ edits' = edits + 1
    /\ UNCHANGED <<savePc, saveArgs, saveTodo, saves, loadPc, loadDirs, loadCur, loadFiles, view>>

InitStore ==
    /\ modelDir = <<>>
    /\ inference_engines = <<>>
    /\ optimal_set = Unset
    /\ RunIdle
    /\ StoreIdle
    /\ ProjectIdle
    /\ RegistryIdle

NextStore ==
    \/ SaveStart /\ UNCHANGED resolverVars /\ UNCHANGED runVars /\ UNCHANGED projectVars /\ UNCHANGED registryVars
    \/ SaveItem /\ UNCHANGED resolverVars /\ UNCHANGED runVars /\ UNCHANGED projectVars /\ UNCHANGED registryVars
    \/ SaveReturn /\ UNCHANGED resolverVars /\ UNCHANGED runVars /\ UNCHANGED projectVars /\ UNCHANGED registryVars
    \/ LoadStart /\ UNCHANGED resolverVars /\ UNCHANGED runVars /\ UNCHANGED projectVars /\ UNCHANGED registryVars
    \/ LoadDir /\ UNCHANGED resolverVars /\ UNCHANGED runVars /\ UNCHANGED projectVars /\ UNCHANGED registryVars
    \/ LoadFile /\ UNCHANGED resolverVars /\ UNCHANGED runVars /\ UNCHANGED projectVars /\ UNCHANGED registryVars
    \/ LoadReturn /\ UNCHANGED resolverVars /\ UNCHANGED runVars /\ UNCHANGED projectVars /\ UNCHANGED registryVars
    \/ RemoveAttributes /\ UNCHANGED resolverVars /\ UNCHANGED runVars /\ UNCHANGED projectVars /\ UNCHANGED registryVars
    \/ CorruptAttributes /\ UNCHANGED resolverVars /\ UNCHANGED runVars /\ UNCHANGED projectVars /\ UNCHANGED registryVars
    \/ AddStrayFile /\ UNCHANGED resolverVars /\ UNCHANGED runVars /\ UNCHANGED projectVars /\ UNCHANGED registryVars

SpecStore == InitStore /\ [][NextStore]_vars

(***************************************************************************)
(* Claims about the result store                                           *)
(***************************************************************************)
\* a result directory holds a payload file
HasPayload(d) == \E f \in disk[d].files : RendererFor(f[2]) # ""

\* C9: a result record is never partially written: once saveResults has returned or
\* failed, and nothing but saveResults wrote to the folder, every result directory
\* that exists holds both its payload file and attributes.txt, whatever the data
\* types passed in and whichever export failed.
C9_NeverPartiallyWritten ==
    (savePc \in {"done", "failed"} /\ edits = 0) =>
        \A d \in DOMAIN disk : HasPayload(d) /\ disk[d].attributes # NoFile

\* loadResults can load the result directory: every file has an extension, there is a
\* payload file, attributes.txt exists and parses for the renderer of each payload
LoadsAlone(d) ==
    /\ HasPayload(d)
    /\ disk[d].attributes # NoFile
    /\ \A f \in disk[d].files :
          /\ f[2] # ""
          /\ RendererFor(f[2]) # "" =>
                ~ParseAttributes(disk[d].attributes, 1,
                                 CreatedRenderer(RendererFor(f[2])).attrs).throws

InView(d) == \E i \in DOMAIN view : view[i].dir = d

\* C10: a failure in one result set (an "Attribute" line of fewer than 3 tokens, a
\* missing attributes.txt) fails only that result set: once loadResults is over,
\* every result set of the image that loads on its own has its renderer in the view,
\* whether it was listed before or after the failing one.
C10_SiblingsStillLoad ==
    loadPc \in {"done", "failed"} => \A d \in DOMAIN disk : LoadsAlone(d) => InView(d)


\* the result directories of the segmentation outputs (Image, ImagePyramid) of a
\* completed save: those with a .mhd or .tiff payload under the saved pipeline
SegmentationOutputs ==
    { d \in DOMAIN disk : d[1] = saveArgs.name /\ \E f \in disk[d].files : f[2] \in {".mhd", ".tiff"} }

SavedSegmentationRenderers ==
    { saveArgs.renderers[i] : i \in { k \in DOMAIN saveArgs.renderers :
                                        saveArgs.renderers[k].class = "SegmentationRenderer" } }

\* C11: round trip: after one saveResults that returned and a loadResults that
\* returned, with nothing else writing to the folder, every segmentation output has in
\* the view a SegmentationRenderer with the colors and opacity of each segmentation
\* renderer that was configured on the saved pipeline, whatever renderers it had.
C11_RoundTrip ==
    (saves = 1 /\ savePc = "done" /\ edits = 0 /\ loadPc = "done") =>
        \A d \in SegmentationOutputs : \A r \in SavedSegmentationRenderers :
            \E i \in DOMAIN view :
                /\ view[i].dir = d
                /\ view[i].class = "SegmentationRenderer"
                /\ view[i].attrs = r.attrs

\* the one file the specification gives an output of that name and data type
ContainerOf(name, type) ==
    IF type = "ImagePyramid" THEN {<<name, ".tiff">>}
    ELSE IF type = "Image" THEN {<<name, ".mhd">>}
    ELSE IF type = "Tensor" THEN {<<name, ".hdf5">>}
    ELSE {}

FilesBefore(d) == IF d \in DOMAIN disk THEN disk[d].files ELSE {}

\* C21: every iteration of saveResults whose export does not fail writes the output
\* to exactly one file, <name>.tiff for an ImagePyramid, <name>.mhd for an Image and
\* <name>.hdf5 for a Tensor, inside the directory <pipeline>/<name>/ of the image, and
\* writes no payload file anywhere else.
C21_OneContainerPerKind ==
    [][ (savePc = "loop" /\ saveTodo # <<>> /\ savePc' = "loop") =>
            LET name == Head(saveTodo)[1]
                type == Head(saveTodo)[2]
                saveFolder == <<saveArgs.name, name>>
            IN /\ DOMAIN disk' = DOMAIN disk \cup {saveFolder}
               /\ disk'[saveFolder].files = FilesBefore(saveFolder) \cup ContainerOf(name, type)
               /\ \A d \in DOMAIN disk \ {saveFolder} : disk'[d] = disk[d] ]_vars

\* C21 witness: a save of an Image "a" and an ImagePyramid "b" of pipeline p returned
C21_Witness ==
    /\ savePc = "done"
    /\ saves = 1
    /\ DOMAIN disk = {<<"p", "a">>, <<"p", "b">>}
    /\ disk[<<"p", "a">>].files = {<<"a", ".mhd">>}
    /\ disk[<<"p", "b">>].files = {<<"b", ".tiff">>}

\* attributes.txt of every result directory with a payload is there and parses
AttributesIntact ==
    \A d \in DOMAIN disk : \A f \in disk[d].files :
        (f[2] \in {".tiff", ".mhd", ".hdf5"}) =>
            /\ disk[d].attributes # NoFile
            /\ ~ParseAttributes(disk[d].attributes, 1, CreatedRenderer("SegmentationRenderer").attrs).throws

\* C22: loadResults picks the renderer from the extension of the payload file, a
\* SegmentationRenderer for .tiff and .mhd and a HeatmapRenderer for .hdf5; a file
\* with another extension or with none gives no renderer and does not fail the load.
C22_RendererByExtension ==
    /\ \A i \in DOMAIN view :
          /\ view[i].file[2] \in {".tiff", ".mhd"} => view[i].class = "SegmentationRenderer"
          /\ view[i].file[2] = ".hdf5" => view[i].class = "HeatmapRenderer"
          /\ view[i].file[2] \in {".tiff", ".mhd", ".hdf5"}
    /\ AttributesIntact => loadPc # "failed"

\* the lines of attributes.txt of a directory that name an attribute
LinesNaming(d, name) ==
    { k \in DOMAIN disk[d].attributes : disk[d].attributes[k][2] = name }

\* C23: the attribute lines of attributes.txt are applied to the renderer in file
\* order: an attribute named by several lines ends with the value of the last such
\* line, and one named by no line keeps the value the renderer was created with.
C23_LastLineWins ==
    \A i \in DOMAIN view : \A name \in DOMAIN view[i].attrs :
        LET named == LinesNaming(view[i].dir, name) IN
        IF named = {} THEN view[i].attrs[name] = CreatedRenderer(view[i].class).attrs[name]
        ELSE LET last == CHOOSE k \in named : \A j \in named : j <= k
                 line == disk[view[i].dir].attributes[last]
             IN view[i].attrs[name] = SubSeq(line, 3, Len(line))

\* C23 witness: a renderer was loaded from a file in which two lines name the opacity
\* with different values
C23_Witness ==
    \E i \in DOMAIN view :
        \E k, j \in LinesNaming(view[i].dir, "opacity") :
            k < j /\ disk[view[i].dir].attributes[k] # disk[view[i].dir].attributes[j]

(***************************************************************************)
(* Project: the images of a project and its manifest                       *)
(*   Project::includeImage / removeImage / emptyProject / setRootFolder    *)
(*   Project::saveProject / loadProject                                    *)
(***************************************************************************)
MaxCalls == 5
\* rand() % 10000 draws from 0 .. 9999; the model draws from 0 .. RandRange - 1
RandRange == 2

\* folders a project can be moved to with setRootFolder
Roots == {Folder("/p", FALSE), Folder("/q", TRUE)}

\* folders of the file system that may exist before the program starts
HostFolders == {"/p", "/q"}

\* image files, each path as its chunks between "," characters
ImageFiles == { <<"/d/a.tiff">>, <<"/e/a.tiff">>, <<"/d/b.vsi">>, <<"/d", "1/a.tiff">> }

\* splitCustom(splitCustom(path, "/").back(), ".").front() of a path whose last chunk is given
BaseName == [c \in {"/d/a.tiff", "/e/a.tiff", "1/a.tiff", "/d/b.vsi"} |->
                IF c = "/d/b.vsi" THEN "b" ELSE "a"]

ShortName(fp) == BaseName[fp[Len(fp)]]

\* img_name_short + "#" + std::to_string(rand_int)
NewName(short, n) == short \o "#" \o ToString(n)

\* the key includeImage stores under but with the in_use test left out
IncludedUidReused(imgs, short, n) == short

\* the key includeImage stores the image under
IncludedUid(imgs, short, n) == IF short \in DOMAIN imgs THEN NewName(short, n) ELSE short

\* Project::includeImage; the draws of the loop that hit a name in use are retried
includeImage ==
    \E fp \in ImageFiles, n \in 0..(RandRange - 1) :
        LET short == ShortName(fp)
            uid == IncludedUid(images, short, n)
        IN /\ calls < MaxCalls
           /\ short \in DOMAIN images => NewName(short, n) \notin DOMAIN images
           /\ images' = [u \in DOMAIN images \cup {uid} |-> IF u = uid THEN fp ELSE images[u]]
           /\ lastCall' = [op |-> "includeImage", arg |-> fp, ret |-> uid]
           /\ calls' = calls + 1
           /\ UNCHANGED <<root_folder, temporary_dir_flag, fs, folders>>

\* Project::removeImage
removeImage ==
    \E uid \in DOMAIN images \cup {"b"} :
        /\ calls < MaxCalls
        /\ images' = [u \in DOMAIN images \ {uid} |-> images[u]]
        /\ lastCall' = [op |-> "removeImage", arg |-> <<uid>>, ret |-> ""]
        /\ calls' = calls + 1
        /\ UNCHANGED <<root_folder, temporary_dir_flag, fs, folders>>

\* Project::emptyProject
emptyProject ==
    /\ calls < MaxCalls
    /\ images # NoImages
    /\ images' = NoImages
    /\ lastCall' = [op |-> "emptyProject", arg |-> <<>>, ret |-> ""]
    /\ calls' = calls + 1
    /\ UNCHANGED <<root_folder, temporary_dir_flag, fs, folders>>

\* Project::setRootFolder; QDir().mkdir creates a folder only inside an existing one
setRootFolder ==
    \E R \in Roots :
        /\ calls < MaxCalls
        /\ root_folder' = R
        /\ temporary_dir_flag' = FALSE
        /\ folders' = IF R.dir \in folders
                        THEN folders \cup createFolderDirectoryArchitecture(R)
                        ELSE folders
        /\ lastCall' = [op |-> "setRootFolder", arg |-> <<FolderText(R)>>, ret |-> ""]
        /\ calls' = calls + 1
        /\ UNCHANGED <<images, fs>>

\* the keys of _images in the order std::map iterates them
SuffixedNames(short) == <<short>> \o [i \in 1..RandRange |-> NewName(short, i - 1)]
UidOrder == SuffixedNames("a") \o SuffixedNames("b")

RECURSIVE ManifestLinesFrom(_, _)
ManifestLinesFrom(imgs, order) ==
    IF order = <<>> THEN <<>>
    ELSE IF Head(order) \in DOMAIN imgs
         THEN << <<Head(order)>> \o imgs[Head(order)] >> \o ManifestLinesFrom(imgs, Tail(order))
         ELSE ManifestLinesFrom(imgs, Tail(order))

\* the lines saveProject writes: uid + "," + get_filename(), seen as chunks between ","
ManifestLines(imgs) == ManifestLinesFrom(imgs, UidOrder)

\* the thumbnails saveThumbnails writes
Thumbnails(f, imgs) ==
    { PathSlash(f, "thumbnails/" \o ShortName(imgs[u]) \o ".png") : u \in DOMAIN imgs }

\* Project::saveProject; a file is created only inside an existing folder
saveProject ==
    LET manifest == PathSlash(root_folder, "project.txt")
        written == (IF root_folder.dir \in folders THEN {manifest} ELSE {}) \cup
                   (IF PathSlash(root_folder, "thumbnails") \in folders
                      THEN Thumbnails(root_folder, images) ELSE {})
    IN /\ calls < MaxCalls
       /\ fs' = [p \in DOMAIN fs \cup written |->
                    IF p = manifest /\ p \in written THEN ManifestLines(images)
                    ELSE IF p \in written THEN << <<"png">> >>
                    ELSE fs[p]]
       /\ lastCall' = [op |-> "saveProject", arg |-> <<>>, ret |-> ""]
       /\ calls' = calls + 1
       /\ UNCHANGED <<root_folder, temporary_dir_flag, images, folders>>

\* the fileNames map of loadProject: front of the line -> back of the line, a later line replacing an earlier one
RECURSIVE ParseManifest(_)
ParseManifest(lines) ==
    IF lines = <<>> THEN NoImages
    ELSE LET line == lines[Len(lines)]
             rest == ParseManifest(SubSeq(lines, 1, Len(lines) - 1))
         IN [u \in DOMAIN rest \cup {line[1]} |->
                IF u = line[1] THEN <<line[Len(line)]>> ELSE rest[u]]

\* Project::loadProject, with includeImageFromProject for each entry of fileNames
loadProject ==
    LET manifest == PathGlued(root_folder, "project.txt")
    IN /\ calls < MaxCalls
       /\ images' = IF manifest \in DOMAIN fs THEN ParseManifest(fs[manifest]) ELSE NoImages
       /\ lastCall' = [op |-> "loadProject", arg |-> <<>>, ret |-> ""]
       /\ calls' = calls + 1
       /\ UNCHANGED <<root_folder, temporary_dir_flag, fs, folders>>

InitProject ==
    /\ modelDir = <<>>
    /\ inference_engines = <<>>
    /\ optimal_set = Unset
    /\ RunIdle
    /\ StoreIdle
    /\ RegistryIdle
    /\ root_folder = TemporaryFolder
    /\ temporary_dir_flag = TRUE
    /\ images = NoImages
    /\ fs = NoFiles
    /\ \E host \in SUBSET HostFolders :
           folders = host \cup {FolderText(TemporaryFolder)}
                          \cup createFolderDirectoryArchitecture(TemporaryFolder)
    /\ lastCall = NoCall
    /\ calls = 0

NextProject ==
    \/ includeImage /\ UNCHANGED resolverVars /\ UNCHANGED runVars /\ UNCHANGED storeVars /\ UNCHANGED registryVars
    \/ removeImage /\ UNCHANGED resolverVars /\ UNCHANGED runVars /\ UNCHANGED storeVars /\ UNCHANGED registryVars
    \/ emptyProject /\ UNCHANGED resolverVars /\ UNCHANGED runVars /\ UNCHANGED storeVars /\ UNCHANGED registryVars
    \/ setRootFolder /\ UNCHANGED resolverVars /\ UNCHANGED runVars /\ UNCHANGED storeVars /\ UNCHANGED registryVars
    \/ saveProject /\ UNCHANGED resolverVars /\ UNCHANGED runVars /\ UNCHANGED storeVars /\ UNCHANGED registryVars
    \/ loadProject /\ UNCHANGED resolverVars /\ UNCHANGED runVars /\ UNCHANGED storeVars /\ UNCHANGED registryVars

SpecProject == InitProject /\ [][NextProject]_vars

\* C28: for a project whose root folder was set through setRootFolder to an existing
\* folder, loadProject called right after saveProject on the same root leaves the
\* project with exactly the (uid, filepath) entries it had when it was saved.
C28_ManifestRoundTrip ==
    [][ (/\ lastCall.op = "saveProject"
         /\ lastCall'.op = "loadProject"
         /\ calls' = calls + 1
         /\ ~temporary_dir_flag
         /\ root_folder.dir \in folders) => images' = images ]_vars

\* C29: every includeImage call returns a uid that was not a key of the project
\* before the call, adds the new image under it, and leaves every entry the project
\* had before the call as it was.
C29_IncludeNeverReplaces ==
    [][ (lastCall'.op = "includeImage" /\ calls' = calls + 1) =>
            /\ lastCall'.ret \notin DOMAIN images
            /\ DOMAIN images' = DOMAIN images \cup {lastCall'.ret}
            /\ images'[lastCall'.ret] = lastCall'.arg
            /\ \A u \in DOMAIN images : images'[u] = images[u] ]_vars

\* an image whose short name was in use was included under a new name
C29_Witness ==
    /\ lastCall.op = "includeImage"
    /\ lastCall.ret # ShortName(lastCall.arg)
    /\ Cardinality(DOMAIN images) >= 2

(***************************************************************************)
(* Model registry: threads that call ProcessManager::GetInstance,          *)
(* importModel and runProcess on the one ProcessManager of the process     *)
(***************************************************************************)
MaxThreadCalls == 2

ModelNames == {"m1", "m2"}

\* the folders of data/Models when the ProcessManager is constructed
ApprovedModels == {"m1"}

\* process names runProcess is called with
ProcessNames == ModelNames \cup {"tissue"}

\* the process is still running
Alive == \A t \in Threads : tpc[t] # "crashed"

\* threads inside an access of _models that takes more than one step
Accessing == {t \in Threads : tpc[t] \in {"importModel_insert", "runProcess_lookup"}}

\* ProcessManager::GetInstance, std::lock_guard<std::mutex> lock(_mutex)
GetInstanceLock(t) ==
    /\ Alive
    /\ tpc[t] = "idle"
    /\ tcalls[t] < MaxThreadCalls
    /\ mutex = NoThread
    /\ mutex' = t
    /\ tpc' = [tpc EXCEPT ![t] = "GetInstance"]
    /\ tcalls' = [tcalls EXCEPT ![t] = @ + 1]
    /\ UNCHANGED <<pinstance, models, writing, raced, targ>>

\* ProcessManager::GetInstance from the test of _pinstance to the return, with the
\* constructor's loadApprovedModels on the first call
GetInstanceReturn(t) ==
    /\ Alive
    /\ tpc[t] = "GetInstance"
    /\ pinstance' = TRUE
    /\ models' = IF pinstance THEN models ELSE [n \in ApprovedModels |-> "model"]
    /\ mutex' = NoThread
    /\ tpc' = [tpc EXCEPT ![t] = "idle"]
    /\ UNCHANGED <<writing, raced, targ, tcalls>>

\* ProcessManager::importModel, this->_models.find(name) == this->_models.end()
importModelFind(t) ==
    \E name \in ModelNames :
        /\ Alive
        /\ pinstance
        /\ tpc[t] = "idle"
        /\ tcalls[t] < MaxThreadCalls
        /\ tcalls' = [tcalls EXCEPT ![t] = @ + 1]
        /\ targ' = [targ EXCEPT ![t] = name]
        /\ raced' = (raced \/ writing # {})
        /\ tpc' = [tpc EXCEPT ![t] = IF name \in DOMAIN models THEN "idle" ELSE "importModel_make"]
        /\ UNCHANGED <<pinstance, mutex, models, writing>>

\* ProcessManager::importModel, std::make_shared<LogicRuntimeModel>(...) and the start
\* of this->_models[name] = model
importModelInsert(t) ==
    /\ Alive
    /\ tpc[t] = "importModel_make"
    /\ tpc' = [tpc EXCEPT ![t] = "importModel_insert"]
    /\ writing' = writing \cup {t}
    /\ raced' = (raced \/ Accessing # {})
    /\ UNCHANGED <<pinstance, mutex, models, targ, tcalls>>

\* ProcessManager::importModel, the end of this->_models[name] = model; an insertion that
\* overlapped another access of the map is a data race, with any outcome
importModelReturn(t) ==
    /\ Alive
    /\ tpc[t] = "importModel_insert"
    /\ writing' = writing \ {t}
    /\ LET inserted == [n \in DOMAIN models \cup {targ[t]} |->
                           IF n = targ[t] THEN "model" ELSE models[n]]
       IN IF raced
          THEN \/ models' = inserted /\ tpc' = [tpc EXCEPT ![t] = "idle"]
               \/ models' = models /\ tpc' = [tpc EXCEPT ![t] = "idle"]
               \/ models' = models /\ tpc' = [tpc EXCEPT ![t] = "crashed"]
          ELSE models' = inserted /\ tpc' = [tpc EXCEPT ![t] = "idle"]
    /\ UNCHANGED <<pinstance, mutex, raced, targ, tcalls>>

\* ProcessManager::runProcess up to the start of this->_models[process_name]; operator[]
\* inserts a default entry for a name the map does not hold
runProcessLookup(t) ==
    \E name \in ProcessNames :
        /\ Alive
        /\ pinstance
        /\ tpc[t] = "idle"
        /\ tcalls[t] < MaxThreadCalls
        /\ tcalls' = [tcalls EXCEPT ![t] = @ + 1]
        /\ targ' = [targ EXCEPT ![t] = name]
        /\ IF name = "tissue"
           THEN UNCHANGED <<tpc, writing, raced>>
           ELSE /\ tpc' = [tpc EXCEPT ![t] = "runProcess_lookup"]
                /\ writing' = IF name \in DOMAIN models THEN writing ELSE writing \cup {t}
                /\ raced' = (raced \/ writing # {} \/ (name \notin DOMAIN models /\ Accessing # {}))
        /\ UNCHANGED <<pinstance, mutex, models>>

\* ProcessManager::runProcess, the end of this->_models[process_name] and the call of
\* get_model_metadata() on the entry; on a default entry the call dereferences a null
\* pointer, and after a data race the access has any outcome
runProcessMetadata(t) ==
    /\ Alive
    /\ tpc[t] = "runProcess_lookup"
    /\ writing' = writing \ {t}
    /\ models' = [n \in DOMAIN models \cup {targ[t]} |->
                     IF n \in DOMAIN models THEN models[n] ELSE "null"]
    /\ IF raced \/ models'[targ[t]] = "null"
       THEN \E next \in {"idle", "crashed"} : tpc' = [tpc EXCEPT ![t] = next]
       ELSE tpc' = [tpc EXCEPT ![t] = "idle"]
    /\ UNCHANGED <<pinstance, mutex, raced, targ, tcalls>>

InitRegistry ==
    /\ modelDir = <<>>
    /\ inference_engines = <<>>
    /\ optimal_set = Unset
    /\ RunIdle
    /\ StoreIdle
    /\ ProjectIdle
    /\ RegistryIdle

NextRegistry ==
    \/ \E t \in Threads : GetInstanceLock(t) /\ UNCHANGED resolverVars /\ UNCHANGED runVars /\ UNCHANGED storeVars /\ UNCHANGED projectVars
    \/ \E t \in Threads : GetInstanceReturn(t) /\ UNCHANGED resolverVars /\ UNCHANGED runVars /\ UNCHANGED storeVars /\ UNCHANGED projectVars
    \/ \E t \in Threads : importModelFind(t) /\ UNCHANGED resolverVars /\ UNCHANGED runVars /\ UNCHANGED storeVars /\ UNCHANGED projectVars
    \/ \E t \in Threads : importModelInsert(t) /\ UNCHANGED resolverVars /\ UNCHANGED runVars /\ UNCHANGED storeVars /\ UNCHANGED projectVars
    \/ \E t \in Threads : importModelReturn(t) /\ UNCHANGED resolverVars /\ UNCHANGED runVars /\ UNCHANGED storeVars /\ UNCHANGED projectVars
    \/ \E t \in Threads : runProcessLookup(t) /\ UNCHANGED resolverVars /\ UNCHANGED runVars /\ UNCHANGED storeVars /\ UNCHANGED projectVars
    \/ \E t \in Threads : runProcessMetadata(t) /\ UNCHANGED resolverVars /\ UNCHANGED runVars /\ UNCHANGED storeVars /\ UNCHANGED projectVars

SpecRegistry == InitRegistry /\ [][NextRegistry]_vars

\* C30: mutation of the model registry is synchronized: at no time are two threads
\* inside a modifying access of _models, and a thread between the check and the end
\* of the insert of importModel holds the registry mutex.
C30_RegistryMutationUnderMutex ==
    /\ Cardinality(writing) <= 1
    /\ \A t \in Threads :
           tpc[t] \in {"importModel_make", "importModel_insert"} => mutex = t

====
